---- MODULE Spec2Model ----
(***************************************************************************)
(* Model of the NYC subway delay-risk pipeline: raw GTFS-RT events are     *)
(* aggregated into mta.station_minute_facts (aggregation/aggregate.py),    *)
(* the facts feed the batch dataset builder (dataset/build.py) and the     *)
(* online feature query (serving/features_online.py); ingestion runs are   *)
(* tracked in mta.ingest_runs (ingestion/ingest.py).                       *)
(*                                                                         *)
(* Time is in seconds since the Unix epoch.  SQL NULL / Python None /      *)
(* pandas NaN identifiers are the value NULL.                              *)
(***************************************************************************)
EXTENDS Integers, Sequences, FiniteSets, Bags, TLC

VARIABLES
    now,          \* the store's clock, now()
    raw_events,   \* table mta.raw_events: bag of rows
    facts,        \* table mta.station_minute_facts: bag of rows
    frame,        \* scripts/build_dataset.py: the dataframe being built
    online,       \* one call of compute_features_online: its cursor state
    ingest_runs,  \* table mta.ingest_runs: run_id -> status
    ingest,       \* one call of ingest_once: its position and locals
    db_up,        \* whether get_conn() and statements succeed
    agg,          \* one call of upsert_facts: its statement and transaction
    parser,       \* one call of parse_feed: its argument and result
    drift,        \* one call of compute_psi: its arguments and result
    retrain,      \* one run of scripts/retrain_weekly.py and the files in models/
    fetch,        \* one call of fetch_bytes: its requests and its outcome
    split         \* one call of time_split: its argument and result

vars == <<now, raw_events, facts, frame, online, ingest_runs, ingest, db_up,
          agg, parser, drift, retrain, fetch, split>>

pipelineVars == <<frame, online>>

ingestVars == <<ingest_runs, ingest, db_up>>

scriptVars == <<retrain, fetch, split>>

unitVars == <<agg, parser, drift, scriptVars>>

(***************************************************************************)
(* Bounds and input sets                                                   *)
(***************************************************************************)
MaxEvents == 2

\* rows kept in mta.station_minute_facts
MaxFacts == 4

NULL == "NULL"

LineIds == {"A"}

StopIds == {"S1"}

FeedTypes == {"service_alerts", "trip_updates", "vehicle_positions"}

\* feed header timestamps seen by the aggregation loop (external input)
HeaderTimestamps == {80, 110, 3705}

\* feed header timestamps of the history the feature pipeline works on
HistoryTimestamps == {80, 980, 3680}

\* (line_id, stop_id) of the requests sent to the scoring endpoint
RequestKeys == {<<"A", "S1">>, <<"A", "S2">>}

\* scripts/aggregate_facts.py: os.getenv("WINDOW_MINUTES", "120")
DefaultWindowMinutes == 120

\* instants at which the store's clock is observed
Clock0 == 3700

ClockInstants == {3700, 3720}

\* WINDOW_MINUTES values given to scripts/aggregate_facts.py
WindowMinutes == {60, 120}

\* (feed_type, line_id, stop_id) of the entities that feeds deliver
EntityShapes ==
    { <<"service_alerts", "A", "S1">>,
      <<"trip_updates", "A", "S1">>,
      <<"vehicle_positions", "A", "S1">>,
      <<"service_alerts", "A", NULL>>,
      <<"vehicle_positions", NULL, NULL>> }

(***************************************************************************)
(* Helpers                                                                 *)
(***************************************************************************)
RECURSIVE SumBag(_, _)
\* number of rows of bag B that lie in the set S
SumBag(B, S) ==
    IF S = {} THEN 0
    ELSE LET x == CHOOSE y \in S : TRUE
         IN  (IF x \in DOMAIN B THEN B[x] ELSE 0) + SumBag(B, S \ {x})

BagCount(B) == SumBag(B, DOMAIN B)

\* SQL "a = b": unknown (not true) when either side is NULL
SqlEq(a, b) == a # NULL /\ b # NULL /\ a = b

(***************************************************************************)
(* aggregation/aggregate.py: upsert_facts                                  *)
(***************************************************************************)
\* date_trunc('minute', event_ts)
DateTruncMinute(ts) == ts - (ts % 60)

\* date_bin('5 minutes', event_ts, TIMESTAMPTZ '1970-01-01 00:00:00+00')
DateBin5Minutes(ts) == ts - (ts % 300)

\* mutant of bucket_function: the minute truncation for every bucket width
bucket_function_minute(bucket_size_seconds, ts) == DateTruncMinute(ts)

bucket_function(bucket_size_seconds, ts) ==
    IF bucket_size_seconds = 60 THEN DateTruncMinute(ts)
    ELSE DateBin5Minutes(ts)

\* WHERE event_ts >= now() - INTERVAL '{window_minutes} minutes'
InLookback(e, t, window_minutes) == e.event_ts >= t - window_minutes * 60

SelectedEvents(raw, t, window_minutes) ==
    {e \in DOMAIN raw : InLookback(e, t, window_minutes)}

\* GROUP BY bucket_start, line_id, stop_id (NULLs form groups of their own)
GroupKeys(raw, t, bucket_size_seconds, window_minutes) ==
    { <<bucket_function(bucket_size_seconds, e.event_ts), e.line_id, e.stop_id>> :
        e \in SelectedEvents(raw, t, window_minutes) }

\* COUNT(*) FILTER (WHERE feed_type = ft) within one group
CountFilter(raw, t, bucket_size_seconds, window_minutes, g, ft) ==
    SumBag(raw, {e \in SelectedEvents(raw, t, window_minutes) :
                    /\ bucket_function(bucket_size_seconds, e.event_ts) = g[1]
                    /\ e.line_id = g[2]
                    /\ e.stop_id = g[3]
                    /\ e.feed_type = ft})

\* the rows produced by the SELECT ... GROUP BY (the EXCLUDED rows)
SelectRows(raw, t, bucket_size_seconds, window_minutes) ==
    { [bucket_start |-> g[1],
       bucket_size_seconds |-> bucket_size_seconds,
       line_id |-> g[2],
       stop_id |-> g[3],
       alerts_count |->
           CountFilter(raw, t, bucket_size_seconds, window_minutes, g, "service_alerts"),
       major_alerts_count |-> 0,
       trip_updates_count |->
           CountFilter(raw, t, bucket_size_seconds, window_minutes, g, "trip_updates"),
       vehicle_positions_count |->
           CountFilter(raw, t, bucket_size_seconds, window_minutes, g, "vehicle_positions"),
       created_at |-> t] :
      g \in GroupKeys(raw, t, bucket_size_seconds, window_minutes) }

\* ON CONFLICT (bucket_start, bucket_size_seconds, line_id, stop_id): the
\* arbiter is a unique index on these columns; index entries that hold a NULL
\* never compare equal, so such rows never conflict.
Conflicts(old, new) ==
    /\ old.bucket_start = new.bucket_start
    /\ old.bucket_size_seconds = new.bucket_size_seconds
    /\ SqlEq(old.line_id, new.line_id)
    /\ SqlEq(old.stop_id, new.stop_id)

\* DO UPDATE SET ... = EXCLUDED....: the existing row after the update
DoUpdateSet(old, excluded) ==
    [old EXCEPT !.alerts_count = excluded.alerts_count,
                !.major_alerts_count = excluded.major_alerts_count,
                !.trip_updates_count = excluded.trip_updates_count,
                !.vehicle_positions_count = excluded.vehicle_positions_count,
                !.created_at = excluded.created_at]

\* the row an existing row becomes under the statement
RowAfter(old, rows) ==
    IF \E x \in rows : Conflicts(old, x)
    THEN DoUpdateSet(old, CHOOSE x \in rows : Conflicts(old, x))
    ELSE old

\* the table after INSERT ... SELECT ... ON CONFLICT DO UPDATE
TableAfter(table, rows) ==
    LET inserted == {x \in rows : ~ \E old \in DOMAIN table : Conflicts(old, x)}
        updated  == {RowAfter(old, rows) : old \in DOMAIN table}
        kept(r)  == SumBag(table, {old \in DOMAIN table : RowAfter(old, rows) = r})
    IN  [r \in updated \cup inserted |->
            (IF r \in updated THEN kept(r) ELSE 0) + (IF r \in inserted THEN 1 ELSE 0)]

upsert_facts(table, raw, t, bucket_size_seconds, window_minutes) ==
    TableAfter(table, SelectRows(raw, t, bucket_size_seconds, window_minutes))

(***************************************************************************)
(* dataset/build.py: load_facts, create_features, create_label             *)
(***************************************************************************)
\* pandas NaN in a numeric column (every count and sum is >= 0)
NaN == -1

WINDOW_15MIN == 900

WINDOW_60MIN == 3600

\* sort order of identifiers; pandas sorts NaN keys last
IdOrder == <<"A", "S1", NULL>>

IdRank(x) == CHOOSE i \in 1..Len(IdOrder) : IdOrder[i] = x

\* .dt.hour / datetime.hour of a UTC timestamp
HourOf(ts) == (ts \div 3600) % 24

\* .dt.dayofweek / datetime.weekday(), Monday = 0 (1970-01-01 was a Thursday)
WeekdayOf(ts) == ((ts \div 86400) + 3) % 7

RECURSIVE SumSeq(_, _, _)
\* sum of f[i] over the positions i \in S
SumSeq(f, S, acc) ==
    IF S = {} THEN acc
    ELSE LET i == CHOOSE j \in S : TRUE IN SumSeq(f, S \ {i}, acc + f[i])

\* SELECT * FROM mta.station_minute_facts WHERE bucket_size_seconds = 60
Facts60(table) ==
    LET D == {r \in DOMAIN table : r.bucket_size_seconds = 60}
    IN  [r \in D |-> table[r]]

\* ORDER BY bucket_start: every order of the rows that is sorted by
\* bucket_start (the order of rows with equal bucket_start is not determined)
OrderedFrames(B) ==
    LET n == BagCount(B)
    IN  {s \in [1..n -> DOMAIN B] :
            /\ \A r \in DOMAIN B : Cardinality({i \in 1..n : s[i] = r}) = B[r]
            /\ \A i \in 1..n : \A j \in 1..n :
                   i < j => s[i].bucket_start <= s[j].bucket_start}

BothNull(r) == r.line_id = NULL /\ r.stop_id = NULL

\* mutant of DropBothNull: the frame is returned without the filter
DropBothNull_NoFilter(s) == s

\* df = df[~(df['line_id'].isna() & df['stop_id'].isna())]
DropBothNull(s) == SelectSeq(s, LAMBDA r : ~ BothNull(r))

\* the frames load_facts can return for a table
load_facts(table) == {DropBothNull(s) : s \in OrderedFrames(Facts60(table))}

SameGroup(a, b) == a.line_id = b.line_id /\ a.stop_id = b.stop_id

\* positions of df in the order of df.groupby(['line_id','stop_id'],
\* dropna=False): groups sorted by key, rows of a group in frame order
GroupBefore(df, i, j) ==
    \/ IdRank(df[i].line_id) < IdRank(df[j].line_id)
    \/ /\ df[i].line_id = df[j].line_id
       /\ IdRank(df[i].stop_id) < IdRank(df[j].stop_id)
    \/ /\ SameGroup(df[i], df[j])
       /\ i < j

GroupOrder(df) ==
    LET n == Len(df)
    IN  CHOOSE p \in [1..n -> 1..n] :
            /\ \A i \in 1..n : \E k \in 1..n : p[k] = i
            /\ \A k \in 1..n : \A l \in 1..n : k < l => GroupBefore(df, p[k], p[l])

\* rows of the window of .rolling(window, closed='left') for the row at
\* position i: same group, bucket_start in [t - window, t)
InRollingWindow(df, i, j, window) ==
    /\ SameGroup(df[i], df[j])
    /\ df[j].bucket_start >= df[i].bucket_start - window
    /\ df[j].bucket_start < df[i].bucket_start

\* grouped[col].rolling(window, closed='left').sum() at position i of df;
\* min_periods is 1 for a time window, so an empty window gives NaN
RollingSum(df, col, window, i) ==
    LET W == {j \in 1..Len(df) : InRollingWindow(df, i, j, window)}
    IN  IF W = {} THEN NaN
        ELSE SumSeq([j \in 1..Len(df) |-> df[j][col]], W, 0)

\* df[col_name] = series.reset_index(level=[0, 1], drop=True): the series is
\* in group order and indexed by bucket_start.  Equal indexes: the values are
\* taken by position.  Otherwise they are reindexed by label, which raises
\* ValueError when the index holds a bucket_start twice.
IndexEqual(df) ==
    \A k \in 1..Len(df) : df[GroupOrder(df)[k]].bucket_start = df[k].bucket_start

IndexUnique(df) ==
    \A i \in 1..Len(df) : \A j \in 1..Len(df) :
        i # j => df[i].bucket_start # df[j].bucket_start

\* position of df whose rolling value lands on row k
AssignedFrom(df, k) ==
    IF IndexEqual(df) THEN GroupOrder(df)[k] ELSE k

RollingColumns(df, k) ==
    LET i == AssignedFrom(df, k)
    IN  [alerts_sum_15m |-> RollingSum(df, "alerts_count", WINDOW_15MIN, i),
         trip_updates_sum_15m |-> RollingSum(df, "trip_updates_count", WINDOW_15MIN, i),
         vehicle_positions_sum_15m |->
             RollingSum(df, "vehicle_positions_count", WINDOW_15MIN, i),
         alerts_sum_60m |-> RollingSum(df, "alerts_count", WINDOW_60MIN, i),
         trip_updates_sum_60m |-> RollingSum(df, "trip_updates_count", WINDOW_60MIN, i),
         vehicle_positions_sum_60m |->
             RollingSum(df, "vehicle_positions_count", WINDOW_60MIN, i)]

\* create_features: ok = FALSE when the column assignment raises
create_features(df) ==
    IF ~ IndexEqual(df) /\ ~ IndexUnique(df)
    THEN [ok |-> FALSE, rows |-> <<>>]
    ELSE [ok |-> TRUE,
          rows |-> [k \in 1..Len(df) |->
                      df[k] @@ [hour_of_day |-> HourOf(df[k].bucket_start),
                                day_of_week |-> WeekdayOf(df[k].bucket_start)]
                            @@ RollingColumns(df, k)]]

\* df.sort_values(['line_id', 'stop_id', 'bucket_start']), NaN last
SortBefore(df, i, j) ==
    \/ IdRank(df[i].line_id) < IdRank(df[j].line_id)
    \/ /\ df[i].line_id = df[j].line_id
       /\ IdRank(df[i].stop_id) < IdRank(df[j].stop_id)
    \/ /\ SameGroup(df[i], df[j])
       /\ df[i].bucket_start < df[j].bucket_start
    \/ /\ SameGroup(df[i], df[j])
       /\ df[i].bucket_start = df[j].bucket_start
       /\ i < j

SortValues(df) ==
    LET n == Len(df)
        p == CHOOSE q \in [1..n -> 1..n] :
                /\ \A i \in 1..n : \E k \in 1..n : q[k] = i
                /\ \A k \in 1..n : \A l \in 1..n : k < l => SortBefore(df, q[k], q[l])
    IN  [k \in 1..n |-> df[p[k]]]

\* mutant of FutureAlert: the window [t, t + 15min] with the row's own bucket
FutureAlert_OwnBucket(df, i, j) ==
    /\ SameGroup(df[i], df[j])
    /\ df[j].alerts_count > 0
    /\ df[j].bucket_start >= df[i].bucket_start
    /\ df[j].bucket_start <= df[i].bucket_start + WINDOW_15MIN

\* alert_rows[(bucket_start > current_time) & (bucket_start <= future_window_end)]
FutureAlert(df, i, j) ==
    /\ SameGroup(df[i], df[j])
    /\ df[j].alerts_count > 0
    /\ df[j].bucket_start > df[i].bucket_start
    /\ df[j].bucket_start <= df[i].bucket_start + WINDOW_15MIN

has_future_alert(df, i) == \E j \in 1..Len(df) : FutureAlert(df, i, j)

\* create_label: the frame is sorted by group and time; the labels are
\* collected group by group (labels.extend) and assigned by position
\* (df['label'] = labels)
create_label(df) ==
    LET sorted == SortValues(df)
        labels == [k \in 1..Len(sorted) |->
                      IF has_future_alert(sorted, GroupOrder(sorted)[k]) THEN 1 ELSE 0]
    IN  [k \in 1..Len(sorted) |-> sorted[k] @@ [label |-> labels[k]]]

(***************************************************************************)
(* The columns of the dataframe, in order                                  *)
(***************************************************************************)
\* SELECT * FROM mta.station_minute_facts: the key and count columns in the
\* order of the INSERT column list, between fact_id and created_at
TableColumns ==
    <<"fact_id", "bucket_start", "bucket_size_seconds", "line_id", "stop_id",
      "alerts_count", "major_alerts_count", "trip_updates_count",
      "vehicle_positions_count", "created_at">>

load_facts_columns == TableColumns

\* rolling_features, a dict filled window by window: its keys in insertion order
RollingFeatureNames ==
    <<"alerts_sum_15m", "trip_updates_sum_15m", "vehicle_positions_sum_15m",
      "alerts_sum_60m", "trip_updates_sum_60m", "vehicle_positions_sum_60m">>

\* create_features: hour_of_day and day_of_week are appended, set_index takes
\* bucket_start out of the columns, the rolling columns are appended in the
\* order of the dict, reset_index puts bucket_start first
create_features_columns(columns) ==
    <<"bucket_start">>
        \o SelectSeq(columns, LAMBDA c : c # "bucket_start")
        \o <<"hour_of_day", "day_of_week">>
        \o RollingFeatureNames

\* create_label: df['label'] = labels appends the column
create_label_columns(columns) == Append(columns, "label")

(***************************************************************************)
(* serving/features_online.py: compute_features_online                     *)
(***************************************************************************)
\* WHERE line_id = %s AND stop_id = %s AND bucket_size_seconds = 60
StationRows(table, line_id, stop_id) ==
    {r \in DOMAIN table :
        /\ SqlEq(r.line_id, line_id)
        /\ SqlEq(r.stop_id, stop_id)
        /\ r.bucket_size_seconds = 60}

\* ORDER BY bucket_start DESC LIMIT 1: the rows fetchone() can return
LatestRows(table, line_id, stop_id) ==
    {r \in StationRows(table, line_id, stop_id) :
        \A x \in StationRows(table, line_id, stop_id) : x.bucket_start <= r.bucket_start}

\* mutant of WindowRows: the window closed at its start
WindowRows_ClosedStart(table, line_id, stop_id, window_start, latest_bucket_start) ==
    {r \in DOMAIN table :
        /\ SqlEq(r.line_id, line_id)
        /\ SqlEq(r.stop_id, stop_id)
        /\ r.bucket_size_seconds = 60
        /\ r.bucket_start >= window_start
        /\ r.bucket_start <= latest_bucket_start}

\* ... AND bucket_start > %s AND bucket_start <= %s
WindowRows(table, line_id, stop_id, window_start, latest_bucket_start) ==
    {r \in StationRows(table, line_id, stop_id) :
        /\ r.bucket_start > window_start
        /\ r.bucket_start <= latest_bucket_start}

RECURSIVE SumColumn(_, _, _)
\* SUM(col) over the rows S of the table, every stored row counted
SumColumn(table, S, col) ==
    IF S = {} THEN 0
    ELSE LET r == CHOOSE x \in S : TRUE
         IN  r[col] * table[r] + SumColumn(table, S \ {r}, col)

\* COALESCE(SUM(...), 0) for the three counts
WindowSums(table, line_id, stop_id, window_start, latest_bucket_start) ==
    LET S == WindowRows(table, line_id, stop_id, window_start, latest_bucket_start)
    IN  [alerts_sum |-> SumColumn(table, S, "alerts_count"),
         trip_updates_sum |-> SumColumn(table, S, "trip_updates_count"),
         vehicle_positions_sum |-> SumColumn(table, S, "vehicle_positions_count")]

\* mutant of FeaturesDict: the sums of the two windows are exchanged
FeaturesDict_Swapped(row, row_15m, row_60m) ==
    [alerts_count |-> row.alerts_count,
     major_alerts_count |-> row.major_alerts_count,
     trip_updates_count |-> row.trip_updates_count,
     vehicle_positions_count |-> row.vehicle_positions_count,
     hour_of_day |-> HourOf(row.bucket_start),
     day_of_week |-> WeekdayOf(row.bucket_start),
     alerts_sum_15m |-> row_60m.alerts_sum,
     alerts_sum_60m |-> row_15m.alerts_sum,
     trip_updates_sum_15m |-> row_60m.trip_updates_sum,
     trip_updates_sum_60m |-> row_15m.trip_updates_sum,
     vehicle_positions_sum_15m |-> row_60m.vehicle_positions_sum,
     vehicle_positions_sum_60m |-> row_15m.vehicle_positions_sum]

\* the features dict built from the three query results
FeaturesDict(row, row_15m, row_60m) ==
    [alerts_count |-> row.alerts_count,
     major_alerts_count |-> row.major_alerts_count,
     trip_updates_count |-> row.trip_updates_count,
     vehicle_positions_count |-> row.vehicle_positions_count,
     hour_of_day |-> HourOf(row.bucket_start),
     day_of_week |-> WeekdayOf(row.bucket_start),
     alerts_sum_15m |-> row_15m.alerts_sum,
     alerts_sum_60m |-> row_60m.alerts_sum,
     trip_updates_sum_15m |-> row_15m.trip_updates_sum,
     trip_updates_sum_60m |-> row_60m.trip_updates_sum,
     vehicle_positions_sum_15m |-> row_15m.vehicle_positions_sum,
     vehicle_positions_sum_60m |-> row_60m.vehicle_positions_sum]

\* the keys of the features dict, in the order the dict literal lists them
FeaturesDictKeys ==
    <<"alerts_count", "major_alerts_count", "trip_updates_count",
      "vehicle_positions_count", "hour_of_day", "day_of_week",
      "alerts_sum_15m", "alerts_sum_60m", "trip_updates_sum_15m",
      "trip_updates_sum_60m", "vehicle_positions_sum_15m",
      "vehicle_positions_sum_60m">>

(***************************************************************************)
(* training/train.py get_feature_columns and app/main.py FEATURE_ORDER     *)
(***************************************************************************)
exclude_cols ==
    {"fact_id", "bucket_start", "bucket_size_seconds", "line_id", "stop_id",
     "created_at", "label"}

\* [col for col in df.columns if col not in exclude_cols]
get_feature_columns(columns) == SelectSeq(columns, LAMBDA c : c \notin exclude_cols)

FEATURE_ORDER ==
    <<"alerts_count", "alerts_sum_15m", "alerts_sum_60m", "day_of_week",
      "hour_of_day", "major_alerts_count", "trip_updates_count",
      "trip_updates_sum_15m", "trip_updates_sum_60m", "vehicle_positions_count",
      "vehicle_positions_sum_15m", "vehicle_positions_sum_60m">>

\* scripts/train.py: X = df[feature_cols].values, one row of the matrix
TrainingInput(row, columns) ==
    [i \in 1..Len(get_feature_columns(columns)) |-> row[get_feature_columns(columns)[i]]]

\* main.py: np.array([[features_dict[key] for key in FEATURE_ORDER]])
feature_array(features_dict) ==
    [i \in 1..Len(FEATURE_ORDER) |-> features_dict[FEATURE_ORDER[i]]]

(***************************************************************************)
(* Actions of the store                                                    *)
(***************************************************************************)
\* ingestion/ingest.py insert_raw_events: one row per entity, event_ts = feed_ts
InsertRawEvent(shapes, timestamps) ==
    /\ BagCount(raw_events) < MaxEvents
    /\ \E sh \in shapes, ts \in timestamps :
          raw_events' = raw_events (+) SetToBag({[run_id |-> 1,
                                                  feed_type |-> sh[1],
                                                  event_ts |-> ts,
                                                  line_id |-> sh[2],
                                                  stop_id |-> sh[3]]})
    /\ UNCHANGED <<now, facts, pipelineVars, ingestVars, unitVars>>

\* one upsert_facts statement, committed
UpsertFacts(windows) ==
    /\ \E size \in {60, 300}, w \in windows :
          /\ BagCount(upsert_facts(facts, raw_events, now, size, w)) <= MaxFacts
          /\ facts' = upsert_facts(facts, raw_events, now, size, w)
    /\ UNCHANGED <<now, raw_events, pipelineVars, ingestVars, unitVars>>

(***************************************************************************)
(* The aggregation loop: events arrive, the clock advances, and            *)
(* scripts/aggregate_facts.py runs with any WINDOW_MINUTES                 *)
(***************************************************************************)
Ingest == InsertRawEvent(EntityShapes, HeaderTimestamps)

Aggregate == UpsertFacts(WindowMinutes)

Tick ==
    /\ \E t \in ClockInstants : t > now /\ now' = t
    /\ UNCHANGED <<raw_events, facts, pipelineVars, ingestVars, unitVars>>

Init ==
    /\ now = Clock0
    /\ raw_events = EmptyBag
    /\ facts = EmptyBag
    /\ frame = [stage |-> "none"]
    /\ online = [pc |-> "idle"]
    /\ ingest_runs = <<>>
    /\ ingest = [pc |-> "idle"]
    /\ db_up = TRUE
    /\ agg = [pc |-> "idle"]
    /\ parser = [pc |-> "idle"]
    /\ drift = [pc |-> "idle"]
    /\ retrain = [pc |-> "idle"]
    /\ fetch = [pc |-> "idle"]
    /\ split = [pc |-> "idle"]

NextAgg == Ingest \/ Aggregate \/ Tick

SpecAgg == Init /\ [][NextAgg]_vars

(***************************************************************************)
(* The feature pipeline: history is ingested and aggregated with the       *)
(* default WINDOW_MINUTES, scripts/build_dataset.py builds the corpus and  *)
(* the scoring endpoint queries features online.  The dataset build and    *)
(* the online query only read the store; they are run one at a time.       *)
(***************************************************************************)
Quiet == frame.stage = "none" /\ online.pc = "idle"

IngestHistory == Quiet /\ InsertRawEvent(EntityShapes, HistoryTimestamps)

\* the history of an online query in flight (online.seen), extended by the
\* tables that are committed while it runs
Seen(tables) ==
    IF online.pc \in {"sum15", "sum60"}
    THEN [online EXCEPT !.seen = @ \cup tables]
    ELSE online

\* scripts/aggregate_facts.py main: upsert_facts(60, w) then upsert_facts(300, w).
\* The readers of this pipeline select bucket_size_seconds = 60 only, so the
\* two statements are taken as one step.
AggregateCycle ==
    /\ frame.stage = "none"
    /\ LET w == DefaultWindowMinutes
           after60 == upsert_facts(facts, raw_events, now, 60, w)
           after300 == upsert_facts(after60, raw_events, now, 300, w)
       IN  /\ BagCount(after300) <= MaxFacts
           /\ facts' = after300
           /\ online' = Seen({after60, after300})
    /\ UNCHANGED <<now, raw_events, frame, ingestVars, unitVars>>

\* build_dataset.py: df = load_facts()
LoadFacts ==
    /\ Quiet
    /\ \E s \in load_facts(facts) : frame' = [stage |-> "loaded", df |-> s,
                                                columns |-> load_facts_columns]
    /\ UNCHANGED <<now, raw_events, facts, online, ingestVars, unitVars>>

\* build_dataset.py: df = create_features(df); an exception ends the script
CreateFeatures ==
    /\ frame.stage = "loaded"
    /\ frame' = IF create_features(frame.df).ok
                THEN [stage |-> "features", df |-> create_features(frame.df).rows,
                      columns |-> create_features_columns(frame.columns)]
                ELSE [stage |-> "failed", df |-> frame.df, columns |-> frame.columns]
    /\ UNCHANGED <<now, raw_events, facts, online, ingestVars, unitVars>>

\* build_dataset.py: df = create_label(df)
CreateLabel ==
    /\ frame.stage = "features"
    /\ frame' = [stage |-> "labelled", df |-> create_label(frame.df),
                 columns |-> create_label_columns(frame.columns)]
    /\ UNCHANGED <<now, raw_events, facts, online, ingestVars, unitVars>>

\* the script ends
BuildExit ==
    /\ frame.stage \in {"labelled", "failed"}
    /\ frame' = [stage |-> "none"]
    /\ UNCHANGED <<now, raw_events, facts, online, ingestVars, unitVars>>

\* the exceptions get_conn() raises: get_db_dsn's ValueError when a
\* POSTGRES_* variable is missing, psycopg's OperationalError when the store
\* is unreachable
ConnectErrors ==
    { [exception |-> "ValueError", message |-> "POSTGRES_DB environment variable is required"],
      [exception |-> "OperationalError", message |-> "connection failed"] }

\* compute_features_online: get_conn(), then the first query, ORDER BY
\* bucket_start DESC LIMIT 1; ValueError when it returns no row.  The
\* connection is opened with psycopg's defaults (no autocommit, the server's
\* READ COMMITTED): each of the three queries reads the table as committed
\* when it runs.  online.seen is a history of the query, the committed tables
\* since its first read; no step reads it.
OnlineLatest ==
    /\ Quiet
    /\ \E k \in RequestKeys :
          \/ \E e \in ConnectErrors :
                online' = [pc |-> "raised", line_id |-> k[1], stop_id |-> k[2],
                           exception |-> e.exception, message |-> e.message]
          \/ IF LatestRows(facts, k[1], k[2]) = {}
             THEN online' = [pc |-> "raised", line_id |-> k[1], stop_id |-> k[2],
                             exception |-> "ValueError", message |-> "No data found"]
             ELSE \E row \in LatestRows(facts, k[1], k[2]) :
                     online' = [pc |-> "sum15", line_id |-> k[1], stop_id |-> k[2],
                                row |-> row, seen |-> {facts}]
    /\ UNCHANGED <<now, raw_events, facts, frame, ingestVars, unitVars>>

\* second query: the 15-minute sums
OnlineSum15 ==
    /\ online.pc = "sum15"
    /\ online' = [online EXCEPT
                     !.pc = "sum60"] @@
                 [row_15m |-> WindowSums(facts, online.line_id, online.stop_id,
                                         online.row.bucket_start - WINDOW_15MIN,
                                         online.row.bucket_start)]
    /\ UNCHANGED <<now, raw_events, facts, frame, ingestVars, unitVars>>

\* third query: the 60-minute sums, then the features dict is returned
OnlineSum60 ==
    /\ online.pc = "sum60"
    /\ LET row_60m == WindowSums(facts, online.line_id, online.stop_id,
                                 online.row.bucket_start - WINDOW_60MIN,
                                 online.row.bucket_start)
       IN  online' = [pc |-> "returned",
                      line_id |-> online.line_id,
                      stop_id |-> online.stop_id,
                      features |-> FeaturesDict(online.row, online.row_15m, row_60m),
                      latest_bucket_start |-> online.row.bucket_start,
                      seen |-> online.seen]
    /\ UNCHANGED <<now, raw_events, facts, frame, ingestVars, unitVars>>

\* the store fails during the second or third query
OnlineStoreError ==
    /\ online.pc \in {"sum15", "sum60"}
    /\ online' = [pc |-> "raised", line_id |-> online.line_id,
                  stop_id |-> online.stop_id,
                  exception |-> "OperationalError", message |-> "connection failed"]
    /\ UNCHANGED <<now, raw_events, facts, frame, ingestVars, unitVars>>

(***************************************************************************)
(* app/main.py: predict                                                    *)
(***************************************************************************)
\* what get_model() and the model's predict calls do with the feature array:
\* a prediction, RuntimeError when no model is loaded, ValueError when the
\* model rejects the array
ModelOutcomes ==
    { [exception |-> NULL, message |-> "ok"],
      [exception |-> "RuntimeError", message |-> "Model not loaded"],
      [exception |-> "ValueError", message |-> "model rejected the input"] }

\* mutant of status_code: every exception is a server fault
status_code_ServerFault(exception) == 500

\* except ValueError: HTTPException(404); except Exception: HTTPException(500)
status_code(exception) == IF exception = "ValueError" THEN 404 ELSE 500

\* compute_features_online has returned: the model is asked and the response
\* is built, or an exception of the model is turned into an HTTP error
PredictScore ==
    /\ online.pc = "returned"
    /\ \E m \in ModelOutcomes :
          online' = [pc |-> "responded", line_id |-> online.line_id,
                     stop_id |-> online.stop_id,
                     status_code |-> IF m.exception = NULL THEN 200
                                     ELSE status_code(m.exception),
                     detail |-> m.message]
    /\ UNCHANGED <<now, raw_events, facts, frame, ingestVars, unitVars>>

\* compute_features_online has raised: the exception is turned into an HTTP error
PredictExcept ==
    /\ online.pc = "raised"
    /\ online' = [pc |-> "responded", line_id |-> online.line_id,
                  stop_id |-> online.stop_id,
                  status_code |-> status_code(online.exception),
                  detail |-> online.message]
    /\ UNCHANGED <<now, raw_events, facts, frame, ingestVars, unitVars>>

\* the response is sent
OnlineReturn ==
    /\ online.pc = "responded"
    /\ online' = [pc |-> "idle"]
    /\ UNCHANGED <<now, raw_events, facts, frame, ingestVars, unitVars>>

Next ==
    \/ IngestHistory
    \/ AggregateCycle
    \/ LoadFacts
    \/ CreateFeatures
    \/ CreateLabel
    \/ BuildExit
    \/ OnlineLatest
    \/ OnlineSum15
    \/ OnlineSum60
    \/ OnlineStoreError
    \/ PredictScore
    \/ PredictExcept
    \/ OnlineReturn

Spec == Init /\ [][Next]_vars

(***************************************************************************)
(* One call of upsert_facts seen as a transaction, next to the online      *)
(* query: readers see mta.station_minute_facts as committed; the rows the  *)
(* statement has written so far are in agg.work until conn.commit().       *)
(***************************************************************************)
\* the bucket widths upsert_facts is called with
BucketSizes == {60, 300, 3600}

HistoryArrivals == {80, 980}

\* an alert for a station and a vehicle position without line and stop
ArrivalShapes ==
    { <<"service_alerts", "A", "S1">>, <<"vehicle_positions", NULL, NULL>> }

\* mutant of Supported: every width is accepted
Supported_Any(bucket_size_seconds) == TRUE

\* if bucket_size_seconds == 60 ... elif == 300 ... else: raise ValueError
Supported(bucket_size_seconds) == bucket_size_seconds \in {60, 300}

\* raw events arrive between statements: the statement reads mta.raw_events
\* once, in AggExecute, and the online query never reads it
Arrive == agg.pc = "idle" /\ InsertRawEvent(ArrivalShapes, HistoryArrivals)

\* upsert_facts(bucket_size_seconds, window_minutes) is called: the width is
\* checked before the SQL text is built and before get_conn()
AggCall ==
    /\ agg.pc = "idle"
    /\ \E size \in BucketSizes :
          agg' = IF Supported(size)
                 THEN [pc |-> "execute", bucket_size_seconds |-> size,
                       window_minutes |-> DefaultWindowMinutes]
                 ELSE [pc |-> "raised", bucket_size_seconds |-> size,
                       error |-> "ValueError"]
    /\ UNCHANGED <<now, raw_events, facts, pipelineVars, ingestVars, parser, drift, scriptVars>>

\* cur.execute(sql) starts: the SELECT ... GROUP BY is evaluated on the
\* statement's snapshot
AggExecute ==
    /\ agg.pc = "execute"
    /\ LET rows == SelectRows(raw_events, now, agg.bucket_size_seconds,
                              agg.window_minutes)
       IN  /\ BagCount(TableAfter(facts, rows)) <= MaxFacts
           /\ agg' = [pc |-> "writing",
                      bucket_size_seconds |-> agg.bucket_size_seconds,
                      window_minutes |-> agg.window_minutes,
                      before |-> facts, rows |-> rows, pending |-> rows,
                      work |-> facts]
    /\ UNCHANGED <<now, raw_events, facts, pipelineVars, ingestVars, parser, drift, scriptVars>>

\* mutant of AggWrite: each row written is visible to readers at once
AggWrite_Visible ==
    /\ agg.pc = "writing"
    /\ \E x \in agg.pending :
          /\ agg' = [agg EXCEPT !.pending = @ \ {x},
                                !.work = TableAfter(@, {x})]
          /\ facts' = TableAfter(agg.work, {x})
    /\ UNCHANGED <<now, raw_events, pipelineVars, ingestVars, parser, drift, scriptVars>>

\* the statement inserts or updates one of its rows; nothing is committed
AggWrite ==
    /\ agg.pc = "writing"
    /\ \E x \in agg.pending :
          agg' = [agg EXCEPT !.pending = @ \ {x},
                             !.work = TableAfter(@, {x})]
    /\ UNCHANGED <<now, raw_events, facts, pipelineVars, ingestVars, parser, drift, scriptVars>>

\* the statement is complete: affected_rows = cur.rowcount; conn.commit()
AggCommit ==
    /\ agg.pc = "writing"
    /\ agg.pending = {}
    /\ facts' = agg.work
    /\ agg' = [pc |-> "returned", bucket_size_seconds |-> agg.bucket_size_seconds]
    /\ online' = Seen({agg.work})
    /\ UNCHANGED <<now, raw_events, frame, ingestVars, parser, drift, scriptVars>>

\* the caller has the row count, or the ValueError
AggReturn ==
    /\ agg.pc \in {"returned", "raised"}
    /\ agg' = [pc |-> "idle"]
    /\ UNCHANGED <<now, raw_events, facts, pipelineVars, ingestVars, parser, drift, scriptVars>>

NextConc ==
    \/ Arrive
    \/ AggCall
    \/ AggExecute
    \/ AggWrite
    \/ AggCommit
    \/ AggReturn
    \/ OnlineLatest
    \/ OnlineSum15
    \/ OnlineSum60
    \/ OnlineStoreError
    \/ PredictScore
    \/ PredictExcept
    \/ OnlineReturn

SpecConc == Init /\ [][NextConc]_vars

(***************************************************************************)
(* monitoring/drift.py: compute_psi                                        *)
(*                                                                         *)
(* Samples are sequences of numbers.  The result is float('nan'), 0.0, or  *)
(* the sum over the bins, given here by the two histograms it is computed  *)
(* from.                                                                   *)
(***************************************************************************)
MaxSample == 2

SampleValues == {0, 1, 4}

Samples == UNION {[1..n -> SampleValues] : n \in 0..MaxSample}

\* the default of the parameter bins
DefaultBins == 10

\* expected_array.min(), expected_array.max()
ArrayMin(a) == CHOOSE x \in {a[i] : i \in DOMAIN a} : \A j \in DOMAIN a : x <= a[j]

ArrayMax(a) == CHOOSE x \in {a[i] : i \in DOMAIN a} : \A j \in DOMAIN a : x >= a[j]

\* mutant of BinOf: a value outside the edges goes to the nearest bin
BinOf_Clipped(v, min_val, max_val, bins) ==
    IF v < min_val THEN 1
    ELSE IF v >= max_val THEN bins
    ELSE ((v - min_val) * bins) \div (max_val - min_val) + 1

\* np.histogram(a, bins=np.linspace(min_val, max_val, bins + 1)): the bin of
\* a value, 0 for a value outside [min_val, max_val]; the bins are closed on
\* the left and open on the right, the last one closed on both sides
BinOf(v, min_val, max_val, bins) ==
    IF v < min_val \/ v > max_val THEN 0
    ELSE IF v = max_val THEN bins
    ELSE ((v - min_val) * bins) \div (max_val - min_val) + 1

Histogram(a, min_val, max_val, bins) ==
    [b \in 1..bins |->
        Cardinality({i \in DOMAIN a : BinOf(a[i], min_val, max_val, bins) = b})]

\* epsilon = 1e-6, as the fraction 1 / EpsilonInverse
EpsilonInverse == 1000000

\* expected_hist / expected_total + epsilon, divided by the sum of these over
\* the bins: with M = 1 / epsilon and H the sum of the histogram,
\*   (hist[b] / total + 1 / M) / (H / total + bins / M)
\* = (hist[b] * M + total) / (H * M + bins * total),
\* kept as an exact fraction num / den
SmoothedPct(hist, total, bins) ==
    LET H == SumSeq(hist, DOMAIN hist, 0)
    IN  [b \in 1..bins |->
            [num |-> hist[b] * EpsilonInverse + total,
             den |-> H * EpsilonInverse + bins * total]]

\* -1, 0 or 1 as n1 / d1 is below, equal to or above n2 / d2 (all of them
\* positive), by the integer parts and then the remainders' reciprocals
RECURSIVE FracCmp(_, _, _, _)
FracCmp(n1, d1, n2, d2) ==
    LET q1 == n1 \div d1
        q2 == n2 \div d2
        r1 == n1 % d1
        r2 == n2 % d2
    IN  IF q1 < q2 THEN -1
        ELSE IF q1 > q2 THEN 1
        ELSE IF r1 = 0 /\ r2 = 0 THEN 0
        ELSE IF r1 = 0 THEN -1
        ELSE IF r2 = 0 THEN 1
        ELSE FracCmp(d2, r2, d1, r1)

\* the sign of actual_pct - expected_pct
DiffSign(actual_pct, expected_pct) ==
    FracCmp(actual_pct.num, actual_pct.den, expected_pct.num, expected_pct.den)

\* the sign of np.log(actual_pct / expected_pct): the logarithm is positive
\* above 1, zero at 1 and negative below 1, and the quotient of two positive
\* fractions is above 1 exactly when the first is the larger
LogSign(actual_pct, expected_pct) ==
    FracCmp(actual_pct.num, actual_pct.den, expected_pct.num, expected_pct.den)

\* mutant of psi_per_bin: the difference is taken the other way round
psi_per_bin_Swapped(actual_pct, expected_pct) ==
    DiffSign(expected_pct, actual_pct) * LogSign(actual_pct, expected_pct)

\* the sign of (actual_pct - expected_pct) * np.log(actual_pct / expected_pct)
\* in one bin
psi_per_bin(actual_pct, expected_pct) ==
    DiffSign(actual_pct, expected_pct) * LogSign(actual_pct, expected_pct)

\* the signs psi_per_bin.sum() can have, given the signs of its terms
SumSigns(terms) ==
    LET signs == {terms[b] : b \in DOMAIN terms}
    IN  IF signs \subseteq {0} THEN {0}
        ELSE IF signs \subseteq {0, 1} THEN {1}
        ELSE IF signs \subseteq {0, -1} THEN {-1}
        ELSE {-1, 0, 1}

\* lines 37 to 65 of compute_psi: the edges, the two histograms, the smoothed
\* fractions and the sum over the bins
PsiSum(actual_values, expected_values, bins) ==
    LET min_val == ArrayMin(expected_values)
        max_val == ArrayMax(expected_values)
        expected_hist == Histogram(expected_values, min_val, max_val, bins)
        actual_hist == Histogram(actual_values, min_val, max_val, bins)
        expected_total == Len(expected_values)
        actual_total == Len(actual_values)
        expected_pct == SmoothedPct(expected_hist, expected_total, bins)
        actual_pct == SmoothedPct(actual_hist, actual_total, bins)
        terms == [b \in 1..bins |-> psi_per_bin(actual_pct[b], expected_pct[b])]
    IN  [value |-> "sum",
         bin_edges |-> [k \in 0..bins |-> [num |-> min_val * bins + k * (max_val - min_val),
                                          den |-> bins]],
         expected_hist |-> expected_hist,
         actual_hist |-> actual_hist,
         expected_total |-> expected_total,
         actual_total |-> actual_total,
         expected_pct |-> expected_pct,
         actual_pct |-> actual_pct,
         psi_per_bin |-> terms,
         signs |-> SumSigns(terms)]

\* mutant of compute_psi: only the baseline is tested for emptiness
compute_psi_BaselineOnly(actual_values, expected_values, bins) ==
    IF Len(expected_values) = 0
    THEN [value |-> "nan"]
    ELSE IF ArrayMin(expected_values) = ArrayMax(expected_values)
    THEN [value |-> "0.0"]
    ELSE PsiSum(actual_values, expected_values, bins)

compute_psi(actual_values, expected_values, bins) ==
    IF Len(expected_values) = 0 \/ Len(actual_values) = 0
    THEN [value |-> "nan"]
    ELSE IF ArrayMin(expected_values) = ArrayMax(expected_values)
    THEN [value |-> "0.0"]
    ELSE PsiSum(actual_values, expected_values, bins)

\* one call of compute_psi on any pair of samples
InitPsi ==
    /\ now = Clock0
    /\ raw_events = EmptyBag
    /\ facts = EmptyBag
    /\ frame = [stage |-> "none"]
    /\ online = [pc |-> "idle"]
    /\ ingest_runs = <<>>
    /\ ingest = [pc |-> "idle"]
    /\ db_up = TRUE
    /\ agg = [pc |-> "idle"]
    /\ parser = [pc |-> "idle"]
    /\ retrain = [pc |-> "idle"]
    /\ fetch = [pc |-> "idle"]
    /\ split = [pc |-> "idle"]
    /\ \E a \in Samples, e \in Samples :
          drift = [pc |-> "called", actual_values |-> a, expected_values |-> e]

ComputePsi ==
    /\ drift.pc = "called"
    /\ drift' = [pc |-> "returned",
                 actual_values |-> drift.actual_values,
                 expected_values |-> drift.expected_values,
                 psi |-> compute_psi(drift.actual_values, drift.expected_values,
                                     DefaultBins)]
    /\ UNCHANGED <<now, raw_events, facts, pipelineVars, ingestVars, agg, parser, scriptVars>>

NextPsi == ComputePsi

SpecPsi == InitPsi /\ [][NextPsi]_vars

(***************************************************************************)
(* ingestion/parser.py: parse_feed                                         *)
(*                                                                         *)
(* A feed message is a header and a list of entities.  An optional field   *)
(* that is not set (HasField false) is NULL; a field set to the empty      *)
(* string is "".  An entity has a flag per payload (alert, trip_update,    *)
(* vehicle), the alert's informed_entity items, the route_id of its trip   *)
(* descriptor, the stop_ids of its stop_time_updates and the vehicle's     *)
(* stop_id.                                                                *)
(***************************************************************************)
MaxItems == 3

MaxEntities == 2

\* informed_entity items: a route, a stop, another route, both, an empty
\* route_id, neither (an agency only)
InformedEntityItems ==
    { [route_id |-> "A", stop_id |-> NULL],
      [route_id |-> NULL, stop_id |-> "A12"],
      [route_id |-> "Q", stop_id |-> NULL],
      [route_id |-> "", stop_id |-> "S1"],
      [route_id |-> NULL, stop_id |-> NULL] }

InformedEntityLists(max_items) ==
    UNION {[1..n -> InformedEntityItems] : n \in 0..max_items}

AlertEntity(id, items) ==
    [id |-> id, alert |-> TRUE, trip_update |-> FALSE, vehicle |-> FALSE,
     informed_entity |-> items, route_id |-> NULL, stop_time_update |-> <<>>,
     stop_id |-> NULL]

AlertEntities(max_items) ==
    {AlertEntity("e", items) : items \in InformedEntityLists(max_items)}

\* an entity without payload, a trip update, a vehicle without trip and stop,
\* an entity with two payloads, an alert for a station
OtherEntities ==
    { [id |-> "n", alert |-> FALSE, trip_update |-> FALSE, vehicle |-> FALSE,
       informed_entity |-> <<>>, route_id |-> "A", stop_time_update |-> <<>>,
       stop_id |-> "S1"],
      [id |-> "t", alert |-> FALSE, trip_update |-> TRUE, vehicle |-> FALSE,
       informed_entity |-> <<>>, route_id |-> "A",
       stop_time_update |-> <<NULL, "S1", "S2">>, stop_id |-> NULL],
      [id |-> "v", alert |-> FALSE, trip_update |-> FALSE, vehicle |-> TRUE,
       informed_entity |-> <<>>, route_id |-> NULL, stop_time_update |-> <<>>,
       stop_id |-> NULL],
      [id |-> "av", alert |-> TRUE, trip_update |-> FALSE, vehicle |-> TRUE,
       informed_entity |-> <<>>, route_id |-> "A", stop_time_update |-> <<>>,
       stop_id |-> "S2"],
      AlertEntity("a", << [route_id |-> "A", stop_id |-> "S1"] >>) }

\* lists of at most MaxEntities entities, at most one of them an arbitrary alert
\* the entities that come before and after the arbitrary alert of a list
AlertNeighbours == {e \in OtherEntities : e.id \in {"n", "t"}}

EntityLists(max_entities, max_items) ==
    LET plain == UNION {[1..n -> OtherEntities] : n \in 0..max_entities}
        around == UNION {[1..n -> AlertNeighbours] : n \in 1..max_entities}
    IN  plain \cup UNION {{[l EXCEPT ![i] = e] :
                               i \in DOMAIN l, e \in AlertEntities(max_items)} :
                            l \in around}

\* the feed messages parse_feed is called with; when the bytes do not decode
\* the entities are those that precede the malformed part
FeedMessages(max_entities, max_items) ==
    { [decodes |-> dec, has_timestamp |-> h[1], timestamp |-> h[2], entity |-> l] :
        dec \in BOOLEAN, h \in {<<TRUE, 3680>>, <<FALSE, 0>>},
        l \in EntityLists(max_entities, max_items) }

\* mutant of InformedStep: a later item overrides an earlier one
InformedStep_LastWins(acc, informed_entity) ==
    [line_id |-> IF informed_entity.route_id # NULL
                 THEN informed_entity.route_id ELSE acc.line_id,
     stop_id |-> IF informed_entity.stop_id # NULL
                 THEN informed_entity.stop_id ELSE acc.stop_id]

\* if line_id is None and informed_entity.HasField("route_id"): ...
\* if stop_id is None and informed_entity.HasField("stop_id"): ...
InformedStep(acc, informed_entity) ==
    [line_id |-> IF acc.line_id = NULL /\ informed_entity.route_id # NULL
                 THEN informed_entity.route_id ELSE acc.line_id,
     stop_id |-> IF acc.stop_id = NULL /\ informed_entity.stop_id # NULL
                 THEN informed_entity.stop_id ELSE acc.stop_id]

\* for informed_entity in alert.informed_entity
RECURSIVE InformedLoop(_, _, _)
InformedLoop(acc, items, i) ==
    IF i > Len(items) THEN acc
    ELSE InformedLoop(InformedStep(acc, items[i]), items, i + 1)

\* for stop_time_update in ...: if HasField("stop_id"): stop_id = ...; break
RECURSIVE FirstStopTimeUpdate(_, _)
FirstStopTimeUpdate(stop_time_update, i) ==
    IF i > Len(stop_time_update) THEN NULL
    ELSE IF stop_time_update[i] # NULL THEN stop_time_update[i]
    ELSE FirstStopTimeUpdate(stop_time_update, i + 1)

\* mutant of EntityTypeOf: an entity without payload is kept as an alert
EntityTypeOf_KeepAll(entity) ==
    IF entity.trip_update /\ ~ entity.alert THEN "trip_updates"
    ELSE IF entity.vehicle /\ ~ entity.alert THEN "vehicle_positions"
    ELSE "service_alerts"

\* if HasField("alert") ... elif HasField("trip_update") ... elif
\* HasField("vehicle") ...; None otherwise
EntityTypeOf(entity) ==
    IF entity.alert THEN "service_alerts"
    ELSE IF entity.trip_update THEN "trip_updates"
    ELSE IF entity.vehicle THEN "vehicle_positions"
    ELSE NULL

\* line_id and stop_id as extracted for the entity's type
ExtractIds(entity) ==
    IF EntityTypeOf(entity) = "service_alerts"
    THEN InformedLoop([line_id |-> NULL, stop_id |-> NULL], entity.informed_entity, 1)
    ELSE IF EntityTypeOf(entity) = "trip_updates"
    THEN [line_id |-> entity.route_id,
          stop_id |-> FirstStopTimeUpdate(entity.stop_time_update, 1)]
    ELSE [line_id |-> entity.route_id, stop_id |-> entity.stop_id]

\* x if x else None
TruthyOrNone(x) == IF x = "" THEN NULL ELSE x

\* the dict appended for an entity with a type
EntityDict(entity) ==
    [entity_id |-> entity.id,
     entity_type |-> EntityTypeOf(entity),
     line_id |-> TruthyOrNone(ExtractIds(entity).line_id),
     stop_id |-> TruthyOrNone(ExtractIds(entity).stop_id)]

\* for entity in feed_message.entity: ... if entity_type: entities.append(...)
RECURSIVE EntityLoop(_, _, _)
EntityLoop(entities, entity, i) ==
    IF i > Len(entity) THEN entities
    ELSE EntityLoop(IF EntityTypeOf(entity[i]) # NULL
                    THEN Append(entities, EntityDict(entity[i]))
                    ELSE entities,
                    entity, i + 1)

\* utils/time.py from_epoch_seconds(header.timestamp if HasField else None):
\* the header timestamp, else utc_now()
from_epoch_seconds(header, t) == IF header.has_timestamp THEN header.timestamp ELSE t

\* parse_feed(feed_bytes): ParseFromString raises on bytes that do not decode
parse_feed(feed_bytes, t) ==
    IF ~ feed_bytes.decodes
    THEN [raised |-> TRUE, error |-> "DecodeError"]
    ELSE [raised |-> FALSE,
          feed_ts |-> from_epoch_seconds(feed_bytes, t),
          entities |-> EntityLoop(<<>>, feed_bytes.entity, 1)]

\* one call of parse_feed on any feed message
InitParse ==
    /\ now = Clock0
    /\ raw_events = EmptyBag
    /\ facts = EmptyBag
    /\ frame = [stage |-> "none"]
    /\ online = [pc |-> "idle"]
    /\ ingest_runs = <<>>
    /\ ingest = [pc |-> "idle"]
    /\ db_up = TRUE
    /\ agg = [pc |-> "idle"]
    /\ drift = [pc |-> "idle"]
    /\ retrain = [pc |-> "idle"]
    /\ fetch = [pc |-> "idle"]
    /\ split = [pc |-> "idle"]
    /\ \E m \in FeedMessages(MaxEntities, MaxItems) : parser = [pc |-> "called", feed_bytes |-> m]

ParseFeed ==
    /\ parser.pc = "called"
    /\ parser' = [pc |-> IF parse_feed(parser.feed_bytes, now).raised
                         THEN "raised" ELSE "returned",
                  feed_bytes |-> parser.feed_bytes,
                  result |-> parse_feed(parser.feed_bytes, now)]
    /\ UNCHANGED <<now, raw_events, facts, pipelineVars, ingestVars, agg, drift, scriptVars>>

NextParse == ParseFeed

SpecParse == InitParse /\ [][NextParse]_vars

(***************************************************************************)
(* ingestion/ingest.py: ingest_once, run by scripts/ingest_loop.py         *)
(***************************************************************************)
\* runs recorded in mta.ingest_runs
MaxRuns == 2

\* the environments ingest_once can be started in
Environments ==
    { [SERVICE_ALERTS_URL |-> NULL, REALTIME_FEEDS_URLS |-> <<"rt1", "rt2">>],
      [SERVICE_ALERTS_URL |-> "alerts", REALTIME_FEEDS_URLS |-> <<>>],
      [SERVICE_ALERTS_URL |-> "alerts", REALTIME_FEEDS_URLS |-> <<"rt1", "rt2">>] }

\* the feed messages a feed URL answers with: bytes that stop decoding after
\* an alert, an alert feed with a header timestamp, a realtime feed without
\* header timestamp (a trip update and a vehicle without trip and stop)
FeedDocuments ==
    { [decodes |-> FALSE, has_timestamp |-> TRUE, timestamp |-> 3680,
       entity |-> << AlertEntity("a", << [route_id |-> "A", stop_id |-> "S1"] >>) >>],
      [decodes |-> TRUE, has_timestamp |-> TRUE, timestamp |-> 3680,
       entity |-> << AlertEntity("a", << [route_id |-> "A", stop_id |-> "S1"] >>) >>],
      [decodes |-> TRUE, has_timestamp |-> FALSE, timestamp |-> 0,
       entity |-> << [id |-> "t", alert |-> FALSE, trip_update |-> TRUE,
                      vehicle |-> FALSE, informed_entity |-> <<>>, route_id |-> "A",
                      stop_time_update |-> <<"S1">>, stop_id |-> NULL],
                     [id |-> "v", alert |-> FALSE, trip_update |-> FALSE,
                      vehicle |-> TRUE, informed_entity |-> <<>>, route_id |-> NULL,
                      stop_time_update |-> <<>>, stop_id |-> NULL] >>] }

\* [e for e in entities if e.get("entity_type") == feed_type]
EntitiesOfType(entities, feed_type) ==
    SelectSeq(entities, LAMBDA e : e.entity_type = feed_type)

\* the rows insert_raw_events adds for a list of entities
RawRows(run_id, feed_type, feed_ts, entities) ==
    LET row(e) == [run_id |-> run_id, feed_type |-> feed_type, event_ts |-> feed_ts,
                   line_id |-> e.line_id, stop_id |-> e.stop_id]
        R == {row(entities[i]) : i \in 1..Len(entities)}
    IN  [r \in R |-> Cardinality({i \in 1..Len(entities) : row(entities[i]) = r})]

\* ingest_once: the environment is read and checked before any run is created
IngestCall ==
    /\ ingest.pc = "idle"
    /\ Len(ingest_runs) < MaxRuns
    /\ \E env \in Environments :
          IF env.SERVICE_ALERTS_URL = NULL \/ env.REALTIME_FEEDS_URLS = <<>>
          THEN ingest' = [pc |-> "raised", error |-> "ValueError"]
          ELSE ingest' = [pc |-> "start_run",
                          realtime_urls |-> env.REALTIME_FEEDS_URLS]
    /\ UNCHANGED <<now, raw_events, facts, pipelineVars, unitVars, ingest_runs, db_up>>

\* run_id = start_run(...): outside the try block
StartRun ==
    /\ ingest.pc = "start_run"
    /\ IF db_up
       THEN /\ ingest_runs' = Append(ingest_runs, "running")
            /\ ingest' = [pc |-> "fetch", realtime_urls |-> ingest.realtime_urls,
                          run_id |-> Len(ingest_runs) + 1, feed |-> 0]
       ELSE /\ ingest' = [pc |-> "raised", error |-> "StoreError"]
            /\ UNCHANGED ingest_runs
    /\ UNCHANGED <<now, raw_events, facts, pipelineVars, unitVars, db_up>>

\* feed_bytes = fetch_bytes(url, api_key): feed 0 is the service alerts feed,
\* feeds 1.. are the realtime feeds in order
Fetch ==
    /\ ingest.pc = "fetch"
    /\ \/ ingest' = [pc |-> "except", realtime_urls |-> ingest.realtime_urls,
                       run_id |-> ingest.run_id, feed |-> ingest.feed,
                       error |-> "FetchError"]
       \/ \E doc \in FeedDocuments :
             ingest' = [ingest EXCEPT !.pc = "parse"] @@ [feed_bytes |-> doc]
    /\ UNCHANGED <<now, raw_events, facts, pipelineVars, unitVars, ingest_runs, db_up>>

\* mutant of Parse: the entities that precede the malformed part are kept
Parse_Lenient ==
    /\ ingest.pc = "parse"
    /\ ingest' = [pc |-> IF ingest.feed = 0 THEN "insert_alerts"
                         ELSE "insert_trip_updates",
                  realtime_urls |-> ingest.realtime_urls,
                  run_id |-> ingest.run_id,
                  feed |-> ingest.feed,
                  feed_ts |-> from_epoch_seconds(ingest.feed_bytes, now),
                  entities |-> EntityLoop(<<>>, ingest.feed_bytes.entity, 1)]
    /\ UNCHANGED <<now, raw_events, facts, pipelineVars, unitVars, ingest_runs, db_up>>

\* feed_ts, entities = parse_feed(feed_bytes)
Parse ==
    /\ ingest.pc = "parse"
    /\ LET result == parse_feed(ingest.feed_bytes, now)
       IN  IF ~ result.raised
           THEN ingest' = [pc |-> IF ingest.feed = 0 THEN "insert_alerts"
                                  ELSE "insert_trip_updates",
                           realtime_urls |-> ingest.realtime_urls,
                           run_id |-> ingest.run_id,
                           feed |-> ingest.feed,
                           feed_ts |-> result.feed_ts,
                           entities |-> result.entities]
           ELSE ingest' = [pc |-> "except", realtime_urls |-> ingest.realtime_urls,
                           run_id |-> ingest.run_id, feed |-> ingest.feed,
                           error |-> result.error]
    /\ UNCHANGED <<now, raw_events, facts, pipelineVars, unitVars, ingest_runs, db_up>>

\* position after the inserts of the current feed
AfterFeed(pc_now) ==
    IF pc_now \in {"insert_alerts", "insert_trip_updates"} /\ ingest.feed > 0
    THEN [pc |-> "insert_vehicle_positions", realtime_urls |-> ingest.realtime_urls,
          run_id |-> ingest.run_id, feed |-> ingest.feed,
          feed_ts |-> ingest.feed_ts, entities |-> ingest.entities]
    ELSE IF ingest.feed < Len(ingest.realtime_urls)
    THEN [pc |-> "fetch", realtime_urls |-> ingest.realtime_urls,
          run_id |-> ingest.run_id, feed |-> ingest.feed + 1]
    ELSE [pc |-> "finish", realtime_urls |-> ingest.realtime_urls,
          run_id |-> ingest.run_id, feed |-> ingest.feed]

\* insert_raw_events(run_id, feed_type, feed_ts, entities of that type): no
\* statement is sent for an empty list; the realtime inserts are skipped
\* when their list is empty
InsertStep(pc_now, feed_type) ==
    /\ ingest.pc = pc_now
    /\ LET entities == EntitiesOfType(ingest.entities, feed_type)
       IN  IF entities = <<>>
           THEN /\ ingest' = AfterFeed(pc_now)
                /\ UNCHANGED raw_events
           ELSE IF db_up
           THEN /\ raw_events' = raw_events (+)
                        RawRows(ingest.run_id, feed_type, ingest.feed_ts, entities)
                /\ ingest' = AfterFeed(pc_now)
           ELSE /\ ingest' = [pc |-> "except", realtime_urls |-> ingest.realtime_urls,
                              run_id |-> ingest.run_id, feed |-> ingest.feed,
                              error |-> "StoreError"]
                /\ UNCHANGED raw_events
    /\ UNCHANGED <<now, facts, pipelineVars, unitVars, ingest_runs, db_up>>

InsertAlerts == InsertStep("insert_alerts", "service_alerts")

InsertTripUpdates == InsertStep("insert_trip_updates", "trip_updates")

InsertVehiclePositions == InsertStep("insert_vehicle_positions", "vehicle_positions")

\* finish_run: UPDATE mta.ingest_runs SET status = ... WHERE run_id = ...
finish_run(runs, run_id, status) == [runs EXCEPT ![run_id] = status]

\* finish_run(run_id, "success", notes), the last statement of the try block
FinishSuccess ==
    /\ ingest.pc = "finish"
    /\ IF db_up
       THEN /\ ingest_runs' = finish_run(ingest_runs, ingest.run_id, "success")
            /\ ingest' = [pc |-> "returned", run_id |-> ingest.run_id]
       ELSE /\ ingest' = [pc |-> "except", realtime_urls |-> ingest.realtime_urls,
                          run_id |-> ingest.run_id, feed |-> ingest.feed,
                          error |-> "StoreError"]
            /\ UNCHANGED ingest_runs
    /\ UNCHANGED <<now, raw_events, facts, pipelineVars, unitVars, db_up>>

\* except Exception: finish_run(run_id, "failed", error_msg); raise
ExceptHandler ==
    /\ ingest.pc = "except"
    /\ IF db_up
       THEN ingest_runs' = finish_run(ingest_runs, ingest.run_id, "failed")
       ELSE UNCHANGED ingest_runs
    /\ ingest' = [pc |-> "raised", run_id |-> ingest.run_id,
                  realtime_urls |-> ingest.realtime_urls, feed |-> ingest.feed,
                  error |-> IF db_up THEN ingest.error ELSE "StoreError"]
    /\ UNCHANGED <<now, raw_events, facts, pipelineVars, unitVars, db_up>>

\* mutant of LoopSleep: the exception of a cycle leaves the loop
LoopSleep_Reraise ==
    /\ ingest.pc \in {"returned", "raised"}
    /\ ingest' = IF ingest.pc = "raised"
                 THEN [pc |-> "stopped", by |-> ingest.error]
                 ELSE [pc |-> "idle"]
    /\ UNCHANGED <<now, raw_events, facts, pipelineVars, unitVars, ingest_runs, db_up>>

\* scripts/ingest_loop.py: the exception is logged, the loop sleeps and
\* calls ingest_once again
LoopSleep ==
    /\ ingest.pc \in {"returned", "raised"}
    /\ ingest' = [pc |-> "idle"]
    /\ UNCHANGED <<now, raw_events, facts, pipelineVars, unitVars, ingest_runs, db_up>>

\* scripts/ingest_loop.py lines 29 to 31: Ctrl-C while the loop logs and
\* sleeps after a cycle; main returns 0
LoopInterrupt ==
    /\ ingest.pc \in {"returned", "raised"}
    /\ ingest' = [pc |-> "stopped", by |-> "KeyboardInterrupt"]
    /\ UNCHANGED <<now, raw_events, facts, pipelineVars, unitVars, ingest_runs, db_up>>

\* the store becomes unreachable, or reachable again
DbToggle ==
    /\ db_up' = ~ db_up
    /\ UNCHANGED <<now, raw_events, facts, pipelineVars, unitVars, ingest_runs, ingest>>

NextIngest ==
    \/ IngestCall
    \/ StartRun
    \/ Fetch
    \/ Parse
    \/ InsertAlerts
    \/ InsertTripUpdates
    \/ InsertVehiclePositions
    \/ FinishSuccess
    \/ ExceptHandler
    \/ LoopSleep
    \/ LoopInterrupt
    \/ DbToggle

SpecIngest == Init /\ [][NextIngest]_vars

(***************************************************************************)
(* scripts/retrain_weekly.py: main, with scripts/build_dataset.py and      *)
(* scripts/train.py run as subprocesses                                    *)
(*                                                                         *)
(* retrain.dir is the directory models/: best_model.pkl, last_metrics.json *)
(* and best_model.pkl.backup, each NULL when the file does not exist.  A   *)
(* model file is named by the training that wrote it; a metrics file is    *)
(* the model it describes and its test F1, in thousandths.  A missing      *)
(* metrics file, a missing key and a local that is None are None; a value  *)
(* x that is there is Some(x).                                             *)
(***************************************************************************)
F1Values == {400, 405, 410, 420}

\* Python's None for a number or a dict, and a value that is not None
None == <<>>

Some(x) == <<x>>

\* improvement_threshold = 0.01, in thousandths
improvement_threshold == 10

\* last_metrics.json as an earlier training left it; test_f1 is NULL when the
\* file has no test_metrics.f1
PreviousMetrics ==
    {[model_name |-> "previous", test_f1 |-> f] :
        f \in {Some(x) : x \in F1Values} \cup {None}}

\* models/ when the run starts
ModelsDirs ==
    {[best_model |-> m, last_metrics |-> j, backup |-> b] :
        m \in {NULL, "previous"},
        j \in {Some(metrics) : metrics \in PreviousMetrics} \cup {None},
        b \in {NULL, "older"}}

\* metrics_data.get('test_metrics', {}).get('f1', 0.0)
TestF1(metrics_data) ==
    IF metrics_data.test_f1 = None THEN 0 ELSE metrics_data.test_f1[1]

InitRetrain ==
    /\ now = Clock0
    /\ raw_events = EmptyBag
    /\ facts = EmptyBag
    /\ frame = [stage |-> "none"]
    /\ online = [pc |-> "idle"]
    /\ ingest_runs = <<>>
    /\ ingest = [pc |-> "idle"]
    /\ db_up = TRUE
    /\ agg = [pc |-> "idle"]
    /\ parser = [pc |-> "idle"]
    /\ drift = [pc |-> "idle"]
    /\ fetch = [pc |-> "idle"]
    /\ split = [pc |-> "idle"]
    /\ \E dir \in ModelsDirs :
          retrain = [pc |-> "start", dir |-> dir, old_test_f1 |-> None,
                     old_metrics_data |-> None, best_test_f1 |-> None,
                     returncode |-> None]

RetrainFrame ==
    UNCHANGED <<now, raw_events, facts, pipelineVars, ingestVars, agg, parser,
                drift, fetch, split>>

\* lines 19 to 36: the current model is copied to the backup and the current
\* metrics are loaded, when both files exist
Backup ==
    /\ retrain.pc = "start"
    /\ retrain' =
          IF retrain.dir.last_metrics # None /\ retrain.dir.best_model # NULL
          THEN [retrain EXCEPT !.pc = "build",
                               !.dir.backup = retrain.dir.best_model,
                               !.old_metrics_data = retrain.dir.last_metrics,
                               !.old_test_f1 =
                                   Some(TestF1(retrain.dir.last_metrics[1]))]
          ELSE [retrain EXCEPT !.pc = "build"]
    /\ RetrainFrame

\* step 1: scripts/build_dataset.py; it writes data/ only
BuildDataset ==
    /\ retrain.pc = "build"
    /\ \E returncode \in {0, 1} :
          retrain' = IF returncode # 0
                     THEN [retrain EXCEPT !.pc = "exit", !.returncode = Some(1)]
                     ELSE [retrain EXCEPT !.pc = "train"]
    /\ RetrainFrame

\* scripts/train.py up to line 156: the two models are trained and the one
\* with the better validation ROC-AUC is kept with its test metrics; or the
\* script fails
TrainModels ==
    /\ retrain.pc = "train"
    /\ \/ \E f1 \in F1Values :
             retrain' = [retrain EXCEPT !.pc = "save_model",
                                        !.best_test_f1 = Some(f1)]
       \/ retrain' = [retrain EXCEPT !.pc = "train_failed"]
    /\ RetrainFrame

\* scripts/train.py line 160: joblib.dump(best_model, models/best_model.pkl)
SaveModel ==
    /\ retrain.pc = "save_model"
    /\ retrain' = [retrain EXCEPT !.pc = "save_metrics", !.dir.best_model = "new"]
    /\ RetrainFrame

\* scripts/train.py lines 165 to 178: last_metrics.json is written and the
\* script returns 0; or the script fails before the file is written
SaveMetrics ==
    /\ retrain.pc = "save_metrics"
    /\ \/ retrain' = [retrain EXCEPT
                         !.pc = "compare",
                         !.dir.last_metrics =
                             Some([model_name |-> "new",
                                   test_f1 |-> retrain.best_test_f1])]
       \/ retrain' = [retrain EXCEPT !.pc = "train_failed"]
    /\ RetrainFrame

\* step 2 has returned a code other than 0: logger.error and return 1
TrainingFailed ==
    /\ retrain.pc = "train_failed"
    /\ retrain' = [retrain EXCEPT !.pc = "exit", !.returncode = Some(1)]
    /\ RetrainFrame

\* lines 86 to 123: whether the new model is accepted
accept_new_model(old_test_f1, new_test_f1) ==
    IF old_test_f1 = None THEN TRUE
    ELSE new_test_f1 - old_test_f1[1] >= improvement_threshold

\* lines 105 to 121: the backup is copied over best_model.pkl and the metrics
\* loaded at the start are written back
Restored(dir, old_metrics_data) ==
    [dir EXCEPT !.best_model = IF dir.backup # NULL THEN dir.backup ELSE @,
                !.last_metrics = old_metrics_data]

\* steps 3 and 4: the new metrics are loaded and compared with the old ones
Compare ==
    /\ retrain.pc = "compare"
    /\ retrain' =
          IF retrain.dir.last_metrics = None
          THEN [retrain EXCEPT !.pc = "exit", !.returncode = Some(1)]
          ELSE IF accept_new_model(retrain.old_test_f1,
                                   TestF1(retrain.dir.last_metrics[1]))
          THEN [retrain EXCEPT !.pc = "exit", !.returncode = Some(0)]
          ELSE [retrain EXCEPT !.pc = "exit", !.returncode = Some(0),
                               !.dir = Restored(retrain.dir,
                                                retrain.old_metrics_data)]
    /\ RetrainFrame

NextRetrain ==
    \/ Backup
    \/ BuildDataset
    \/ TrainModels
    \/ SaveModel
    \/ SaveMetrics
    \/ TrainingFailed
    \/ Compare

SpecRetrain == InitRetrain /\ [][NextRetrain]_vars

(***************************************************************************)
(* ingestion/client.py: fetch_bytes                                        *)
(*                                                                         *)
(* fetch.requests is the list of calls of requests.get made so far, each   *)
(* with the URL text and the headers it was given; fetch.responses is the  *)
(* list of their outcomes.  A URL text is the configured URL followed by   *)
(* the pieces the code appends to it.                                      *)
(***************************************************************************)
FeedUrls == {"alerts_url", "ace_url"}

\* os.getenv("MTA_API_KEY"): unset, empty or a key
ApiKeys == {NULL, "", "key"}

\* if api_key:
HasApiKey(api_key) == api_key \notin {NULL, ""}

\* what the server or the transport does with one requests.get: an answer
\* with a status code, an exception of requests (ConnectionError, Timeout) or
\* an exception that is no RequestException
RequestOutcomes ==
    {[kind |-> "response", status_code |-> c, content |-> b] :
        c \in {200}, b \in {"feed1", "feed2"}}
    \cup {[kind |-> "response", status_code |-> c, content |-> "body"] :
            c \in {401, 403, 404, 500}}
    \cup {[kind |-> k, status_code |-> 0, content |-> ""] :
            k \in {"ConnectionError", "Timeout", "OtherError"}}

\* response.raise_for_status(): HTTPError for a status of 400 or more
RaisesHTTPError(outcome) ==
    outcome.kind = "response" /\ outcome.status_code >= 400

\* what requests.get and raise_for_status raise for an outcome
RaisedBy(outcome) ==
    IF RaisesHTTPError(outcome)
    THEN [type |-> "HTTPError", status_code |-> outcome.status_code]
    ELSE [type |-> outcome.kind, status_code |-> 0]

\* except (requests.HTTPError, requests.RequestException)
IsRequestException(e) == e.type \in {"HTTPError", "ConnectionError", "Timeout"}

\* mutant of ShouldRetry: every HTTPError of the first request is retried
ShouldRetry_AnyStatus(e, api_key) ==
    /\ IsRequestException(e)
    /\ e.type = "HTTPError"
    /\ HasApiKey(api_key)

\* lines 24 to 27: the error is caught, is an HTTPError with status 401 or
\* 403, and an API key is given
ShouldRetry(e, api_key) ==
    /\ IsRequestException(e)
    /\ e.type = "HTTPError" /\ e.status_code \in {401, 403}
    /\ HasApiKey(api_key)

\* headers = {}; if api_key: headers["x-api-key"] = api_key
FirstHeaders(api_key) ==
    IF HasApiKey(api_key) THEN {<<"x-api-key", api_key>>} ELSE {}

\* retry_url = f"{url}?api_key={api_key}"
retry_url(url, api_key) == <<url, "?api_key=", api_key>>

InitFetch ==
    /\ now = Clock0
    /\ raw_events = EmptyBag
    /\ facts = EmptyBag
    /\ frame = [stage |-> "none"]
    /\ online = [pc |-> "idle"]
    /\ ingest_runs = <<>>
    /\ ingest = [pc |-> "idle"]
    /\ db_up = TRUE
    /\ agg = [pc |-> "idle"]
    /\ parser = [pc |-> "idle"]
    /\ drift = [pc |-> "idle"]
    /\ retrain = [pc |-> "idle"]
    /\ split = [pc |-> "idle"]
    /\ \E url \in FeedUrls, api_key \in ApiKeys :
          fetch = [pc |-> "first", url |-> url, api_key |-> api_key,
                   requests |-> <<>>, responses |-> <<>>,
                   result |-> [kind |-> "none"]]

FetchFrame ==
    UNCHANGED <<now, raw_events, facts, pipelineVars, ingestVars, agg, parser,
                drift, retrain, split>>

\* line 20: requests.get(url, headers=headers, timeout=timeout)
FirstRequest ==
    /\ fetch.pc = "first"
    /\ \E outcome \in RequestOutcomes :
          fetch' = [fetch EXCEPT
                       !.pc = "first_done",
                       !.requests = Append(@, [url |-> <<fetch.url>>,
                                               headers |-> FirstHeaders(fetch.api_key)]),
                       !.responses = Append(@, outcome)]
    /\ FetchFrame

\* lines 21 to 37: the content is returned, or the error is raised again, or
\* the handler goes on to the retry
FirstDone ==
    /\ fetch.pc = "first_done"
    /\ LET outcome == fetch.responses[1]
           e == RaisedBy(outcome)
       IN  fetch' =
              IF outcome.kind = "response" /\ ~ RaisesHTTPError(outcome)
              THEN [fetch EXCEPT !.pc = "returned",
                                 !.result = [kind |-> "content",
                                             content |-> outcome.content]]
              ELSE IF ShouldRetry(e, fetch.api_key)
              THEN [fetch EXCEPT !.pc = "retry"]
              ELSE [fetch EXCEPT !.pc = "raised",
                                 !.result = [kind |-> "raised", error |-> e]]
    /\ FetchFrame

\* line 31: requests.get(retry_url, timeout=timeout)
RetryRequest ==
    /\ fetch.pc = "retry"
    /\ \E outcome \in RequestOutcomes :
          fetch' = [fetch EXCEPT
                       !.pc = "retry_done",
                       !.requests = Append(@, [url |-> retry_url(fetch.url, fetch.api_key),
                                               headers |-> {}]),
                       !.responses = Append(@, outcome)]
    /\ FetchFrame

\* lines 32 to 36: the content is returned or the error of the retry is
\* raised, logged first when it is a RequestException
RetryDone ==
    /\ fetch.pc = "retry_done"
    /\ LET outcome == fetch.responses[2]
       IN  fetch' =
              IF outcome.kind = "response" /\ ~ RaisesHTTPError(outcome)
              THEN [fetch EXCEPT !.pc = "returned",
                                 !.result = [kind |-> "content",
                                             content |-> outcome.content]]
              ELSE [fetch EXCEPT !.pc = "raised",
                                 !.result = [kind |-> "raised",
                                             error |-> RaisedBy(outcome)]]
    /\ FetchFrame

NextFetch ==
    \/ FirstRequest
    \/ FirstDone
    \/ RetryRequest
    \/ RetryDone

SpecFetch == InitFetch /\ [][NextFetch]_vars

(***************************************************************************)
(* dataset/split.py: time_split, as scripts/build_dataset.py calls it      *)
(*                                                                         *)
(* A frame is a list of rows; a row is its bucket_start and, as row, its   *)
(* position in the frame given to time_split, which stands for the other   *)
(* columns.                                                                *)
(***************************************************************************)
MaxRows == 4

SplitTimes == {60, 120, 180}

\* the lengths of the long frames
LongLengths == {10, 20, 90}

\* the frames of up to max_rows rows in any order of time, ties included
ShortFrames(max_rows) ==
    UNION {{[i \in 1..n |-> [row |-> i, bucket_start |-> t[i]]] :
               t \in [1..n -> SplitTimes]} : n \in 0..max_rows}

\* frames of distinct bucket starts, the latest first
LongFrames ==
    {[i \in 1..n |-> [row |-> i, bucket_start |-> 60 * (n - i + 1)]] :
        n \in LongLengths}

\* df.sort_values('bucket_start'): the orders of the positions of df by
\* ascending bucket_start; the sort is not stable, so rows of one
\* bucket_start come in any order.  A row goes after the rows of an earlier
\* bucket_start, at the place tie gives it among the rows of its own.
SortOrders(df) ==
    LET n == Len(df)
        same == [i \in 1..n |->
                    {j \in 1..n : df[j].bucket_start = df[i].bucket_start}]
        earlier == [i \in 1..n |->
                       Cardinality({j \in 1..n :
                                       df[j].bucket_start < df[i].bucket_start})]
        most == CHOOSE c \in 0..n :
                    /\ \A i \in 1..n : Cardinality(same[i]) <= c
                    /\ n = 0 \/ \E i \in 1..n : Cardinality(same[i]) = c
        ties == {tie \in [1..n -> 1..most] :
                    \A i \in 1..n :
                        /\ tie[i] <= Cardinality(same[i])
                        /\ \A j \in same[i] : j # i => tie[j] # tie[i]}
    IN  {[pos \in 1..n |-> CHOOSE i \in 1..n : earlier[i] + tie[i] = pos] :
            tie \in ties}

\* the number of binary digits of q
RECURSIVE BitLength(_)
BitLength(q) == IF q = 0 THEN 0 ELSE 1 + BitLength(q \div 2)

\* int(total_rows * c) for the float literal c written pct/100.  The double c
\* is pct/100 - (deficit/5) * 2^-53 (deficit 2 for 0.70, 1 for 0.85), so the
\* real product lies below total_rows * pct / 100 by total_rows * deficit / 5
\* units of 2^-53.  When total_rows * pct / 100 is no integer v the float
\* product and the real one have the same integer part.  When it is an
\* integer v, the float product is the double nearest to the real one, ties
\* to the even mantissa: v itself when the real product is within half a
\* unit in the last place below v, which is 2^(BitLength(v - 1) - 1) units of
\* 2^-53, and the double before v otherwise, and int() of that is v - 1.
IntOfProduct(total_rows, pct, deficit) ==
    LET v == (total_rows * pct) \div 100
    IN  IF (total_rows * pct) % 100 # 0 \/ total_rows = 0 THEN v
        ELSE IF total_rows * deficit <= 5 * 2 ^ (BitLength(v - 1) - 1) THEN v
        ELSE v - 1

\* lines 6 to 16 for one order of the sort
time_split(df, order) ==
    LET sorted == [i \in 1..Len(df) |-> df[order[i]]]
        total_rows == Len(sorted)
        train_end == IntOfProduct(total_rows, 70, 2)
        val_end == IntOfProduct(total_rows, 85, 1)
    IN  [train_df |-> SubSeq(sorted, 1, train_end),
         val_df |-> SubSeq(sorted, train_end + 1, val_end),
         test_df |-> SubSeq(sorted, val_end + 1, total_rows)]

InitSplit ==
    /\ now = Clock0
    /\ raw_events = EmptyBag
    /\ facts = EmptyBag
    /\ frame = [stage |-> "none"]
    /\ online = [pc |-> "idle"]
    /\ ingest_runs = <<>>
    /\ ingest = [pc |-> "idle"]
    /\ db_up = TRUE
    /\ agg = [pc |-> "idle"]
    /\ parser = [pc |-> "idle"]
    /\ drift = [pc |-> "idle"]
    /\ retrain = [pc |-> "idle"]
    /\ fetch = [pc |-> "idle"]
    /\ \E df \in ShortFrames(MaxRows) \cup LongFrames :
          split = [pc |-> "start", df |-> df]

\* train_df, val_df, test_df = time_split(df)
TimeSplit ==
    /\ split.pc = "start"
    /\ \E order \in SortOrders(split.df) :
          split' = [pc |-> "split", df |-> split.df,
                    result |-> time_split(split.df, order)]
    /\ UNCHANGED <<now, raw_events, facts, pipelineVars, ingestVars, agg, parser,
                   drift, retrain, fetch>>

NextSplit == TimeSplit

SpecSplit == InitSplit /\ [][NextSplit]_vars

(***************************************************************************)
(* Properties of the feature pipeline (specification Spec)                 *)
(***************************************************************************)
\* the twelve feature values of a row of the batch corpus
BatchVector(r) ==
    [alerts_count |-> r.alerts_count,
     major_alerts_count |-> r.major_alerts_count,
     trip_updates_count |-> r.trip_updates_count,
     vehicle_positions_count |-> r.vehicle_positions_count,
     hour_of_day |-> r.hour_of_day,
     day_of_week |-> r.day_of_week,
     alerts_sum_15m |-> r.alerts_sum_15m,
     alerts_sum_60m |-> r.alerts_sum_60m,
     trip_updates_sum_15m |-> r.trip_updates_sum_15m,
     trip_updates_sum_60m |-> r.trip_updates_sum_60m,
     vehicle_positions_sum_15m |-> r.vehicle_positions_sum_15m,
     vehicle_positions_sum_60m |-> r.vehicle_positions_sum_60m]

\* the vectors compute_features_online returns when its three queries read
\* the same table
OnlineVectors(table, line_id, stop_id) ==
    { FeaturesDict(row,
                   WindowSums(table, line_id, stop_id,
                              row.bucket_start - WINDOW_15MIN, row.bucket_start),
                   WindowSums(table, line_id, stop_id,
                              row.bucket_start - WINDOW_60MIN, row.bucket_start)) :
      row \in LatestRows(table, line_id, stop_id) }

\* C1: for every station and as-of time t such that the 60-second facts hold
\* a row of that station at t and t is the station's most recent bucket, the
\* twelve batch feature values of the row at t equal the twelve values that
\* compute_features_online returns for the station on the same table.
C1_BatchOnlineEquivalence ==
    \A df \in load_facts(facts) :
        create_features(df).ok =>
            \A k \in 1..Len(df) :
                df[k] \in LatestRows(facts, df[k].line_id, df[k].stop_id) =>
                    OnlineVectors(facts, df[k].line_id, df[k].stop_id)
                        = {BatchVector(create_features(df).rows[k])}

\* the sum of a count over the rows of the group of row i whose bucket_start
\* lies in (t - window, t], t the bucket_start of row i
LeftOpenSum(df, col, window, i) ==
    SumSeq([j \in 1..Len(df) |-> df[j][col]],
           {j \in 1..Len(df) :
               /\ df[j].line_id = df[i].line_id
               /\ df[j].stop_id = df[i].stop_id
               /\ df[j].bucket_start > df[i].bucket_start - window
               /\ df[j].bucket_start <= df[i].bucket_start},
           0)

\* C2: for every row at time t of the corpus and each window w of 15 and 60
\* minutes, the batch rolling sum of a base count is the sum of that count over
\* the rows of the same (line_id, stop_id) group with bucket_start in
\* (t - w, t], the row's own bucket included.
C2_BatchWindowLeftOpen ==
    \A df \in load_facts(facts) :
        create_features(df).ok =>
            \A k \in 1..Len(df) :
                LET r == create_features(df).rows[k]
                IN  /\ r.alerts_sum_15m = LeftOpenSum(df, "alerts_count", WINDOW_15MIN, k)
                    /\ r.trip_updates_sum_15m
                           = LeftOpenSum(df, "trip_updates_count", WINDOW_15MIN, k)
                    /\ r.vehicle_positions_sum_15m
                           = LeftOpenSum(df, "vehicle_positions_count", WINDOW_15MIN, k)
                    /\ r.alerts_sum_60m = LeftOpenSum(df, "alerts_count", WINDOW_60MIN, k)
                    /\ r.trip_updates_sum_60m
                           = LeftOpenSum(df, "trip_updates_count", WINDOW_60MIN, k)
                    /\ r.vehicle_positions_sum_60m
                           = LeftOpenSum(df, "vehicle_positions_count", WINDOW_60MIN, k)

(***************************************************************************)
(* Properties of the aggregation (specification SpecAgg)                   *)
(***************************************************************************)
\* a fact row without its row timestamp
WithoutTimestamp(r) ==
    [bucket_start |-> r.bucket_start,
     bucket_size_seconds |-> r.bucket_size_seconds,
     line_id |-> r.line_id,
     stop_id |-> r.stop_id,
     alerts_count |-> r.alerts_count,
     major_alerts_count |-> r.major_alerts_count,
     trip_updates_count |-> r.trip_updates_count,
     vehicle_positions_count |-> r.vehicle_positions_count]

\* the rows of a table, row timestamps left out
CountsOf(table) ==
    LET D == {WithoutTimestamp(r) : r \in DOMAIN table}
    IN  [c \in D |-> SumBag(table, {r \in DOMAIN table : WithoutTimestamp(r) = c})]

\* C3: running upsert_facts twice with the same bucket width over the same
\* lookback window, with no raw event added in between, leaves the table with
\* the same rows and the same counts as after the first run.
C3_IdempotentAggregation ==
    \A size \in {60, 300} : \A w \in WindowMinutes :
        LET once  == upsert_facts(facts, raw_events, now, size, w)
            twice == upsert_facts(once, raw_events, now, size, w)
        IN  CountsOf(twice) = CountsOf(once)

SameKey(a, b) ==
    /\ a.bucket_start = b.bucket_start
    /\ a.bucket_size_seconds = b.bucket_size_seconds
    /\ a.line_id = b.line_id
    /\ a.stop_id = b.stop_id

\* C4: the facts table holds at most one row per (bucket_start,
\* bucket_size_seconds, line_id, stop_id), keys with a null line_id or stop_id
\* included.
C4_KeyUnique ==
    \A r \in DOMAIN facts :
        /\ facts[r] = 1
        /\ \A x \in DOMAIN facts : SameKey(r, x) => x = r

Longer(w1, w2) == IF w1 >= w2 THEN w1 ELSE w2

\* C5: two aggregation cycles with overlapping lookback windows over the same
\* raw events leave, in either order of their upsert statements, the table
\* that a single cycle (over the longer window) leaves.
C5_OverlapSafe ==
    \A size \in {60, 300} : \A w1 \in WindowMinutes : \A w2 \in WindowMinutes :
        LET first  == upsert_facts(facts, raw_events, now, size, w1)
            both   == upsert_facts(first, raw_events, now, size, w2)
            single == upsert_facts(facts, raw_events, now, size, Longer(w1, w2))
        IN  CountsOf(both) = CountsOf(single)

(***************************************************************************)
(* C7: the result of one aggregation cycle                                 *)
(***************************************************************************)
\* the multiple of width at or below ts
FloorTo(ts, width) == (ts \div width) * width

\* number of the events E of a kind that fall in bucket b for a key
EventsIn(E, width, b, line_id, stop_id, feed_type) ==
    SumBag(raw_events, {e \in E : /\ FloorTo(e.event_ts, width) = b
                                  /\ e.line_id = line_id
                                  /\ e.stop_id = stop_id
                                  /\ e.feed_type = feed_type})

\* the cycle upsert_facts(width, w) at now writes exactly the counts of the
\* events E: one row per group of E, with the counts of the group, present in
\* the table after the cycle, and no row for anything else
WritesCountsOf(E, width, w) ==
    LET rows  == SelectRows(raw_events, now, width, w)
        after == upsert_facts(facts, raw_events, now, width, w)
        matches(x, e) == /\ x.bucket_start = FloorTo(e.event_ts, width)
                         /\ x.line_id = e.line_id
                         /\ x.stop_id = e.stop_id
    IN  /\ \A e \in E :
              /\ Cardinality({x \in rows : matches(x, e)}) = 1
              /\ \E r \in DOMAIN after : matches(r, e) /\ r \in rows
        /\ \A x \in rows :
              /\ \E e \in E : matches(x, e)
              /\ x.bucket_size_seconds = width
              /\ x.bucket_start % width = 0
              /\ x.alerts_count = EventsIn(E, width, x.bucket_start, x.line_id,
                                           x.stop_id, "service_alerts")
              /\ x.trip_updates_count = EventsIn(E, width, x.bucket_start, x.line_id,
                                                 x.stop_id, "trip_updates")
              /\ x.vehicle_positions_count = EventsIn(E, width, x.bucket_start,
                                                      x.line_id, x.stop_id,
                                                      "vehicle_positions")
        /\ \A e \in E : /\ FloorTo(e.event_ts, width) <= e.event_ts
                        /\ e.event_ts < FloorTo(e.event_ts, width) + width

\* C7 as stated: one cycle of upsert_facts(width, lookback) at time now writes,
\* for every group of raw events with event_time in [now - lookback, now),
\* exactly one fact whose counts are the numbers of events of each kind in the
\* group, bucket_start being the multiple of width at or below event_time;
\* events outside [now - lookback, now) contribute to no count.
C7_WindowClosedAtNow ==
    \A width \in {60, 300} : \A w \in WindowMinutes :
        WritesCountsOf({e \in DOMAIN raw_events :
                           e.event_ts >= now - w * 60 /\ e.event_ts < now}, width, w)

\* C7 amended: the same for the raw events with event_time >= now - lookback;
\* there is no upper bound, and events before now - lookback contribute to no
\* count.
C7_WindowFromLookback ==
    \A width \in {60, 300} : \A w \in WindowMinutes :
        WritesCountsOf({e \in DOMAIN raw_events : e.event_ts >= now - w * 60}, width, w)

\* a cycle has aggregated an event stamped in the future next to one that is
\* older than the 60-minute lookback
C7_Witness ==
    /\ \E e \in DOMAIN raw_events : e.event_ts < now - 60 * 60
    /\ \E e \in DOMAIN raw_events :
          /\ e.event_ts >= now
          /\ \E r \in DOMAIN facts :
                /\ r.bucket_size_seconds = 300
                /\ r.bucket_start = FloorTo(e.event_ts, 300)
                /\ r.line_id = e.line_id
                /\ r.stop_id = e.stop_id

(***************************************************************************)
(* C6: events without line and stop                                        *)
(***************************************************************************)
WithoutNullKeys(table) ==
    LET D == {r \in DOMAIN table : ~ BothNull(r)}
    IN  [r \in D |-> table[r]]

\* C6 amended: a raw event whose line_id and stop_id are both null never
\* appears in a batch feature row (no row of the frame that load_facts returns,
\* or of the frames built from it, has a null line_id and a null stop_id) nor
\* in an online feature vector (the queries give what they give on the table
\* without the null/null rows).
C6_NullKeyNeverInFeatures ==
    /\ frame.stage # "none" => \A k \in 1..Len(frame.df) : ~ BothNull(frame.df[k])
    /\ online.pc \in {"sum15", "sum60"} => ~ BothNull(online.row)
    /\ \A k \in RequestKeys :
          OnlineVectors(facts, k[1], k[2]) = OnlineVectors(WithoutNullKeys(facts), k[1], k[2])

\* C6 as stated: moreover such an event never contributes to a fact row
\* written by upsert_facts, i.e. no fact row has the null/null key.
C6_NullKeyExcluded ==
    /\ \A r \in DOMAIN facts : ~ BothNull(r)
    /\ C6_NullKeyNeverInFeatures

\* the dataset build has run on a table that holds a 60-second null/null row
\* next to the row of a station
C6_Witness ==
    /\ frame.stage = "labelled"
    /\ Len(frame.df) > 0
    /\ \E r \in DOMAIN facts : BothNull(r) /\ r.bucket_size_seconds = 60

(***************************************************************************)
(* C8: the label                                                           *)
(***************************************************************************)
\* the frame of the example: buckets at minutes 0, 5, 10, 20 of one station,
\* alerts_count = 1 only at minute 10
LabelExample ==
    [k \in 1..4 |->
        [bucket_start |-> <<0, 300, 600, 1200>>[k], bucket_size_seconds |-> 60,
         line_id |-> "A", stop_id |-> "S1",
         alerts_count |-> IF k = 3 THEN 1 ELSE 0, major_alerts_count |-> 0,
         trip_updates_count |-> 1, vehicle_positions_count |-> 0, created_at |-> 0]]

\* C8: every row at time t of the labelled corpus has label 1 if and only if
\* some row of the same (line_id, stop_id) group has alerts_count > 0 and
\* bucket_start in (t, t + 15 min], else 0; the example frame gets 1, 1, 0, 0.
C8_LabelDefinition ==
    /\ frame.stage = "labelled" =>
          \A k \in 1..Len(frame.df) :
              /\ frame.df[k].label \in {0, 1}
              /\ frame.df[k].label = 1 <=>
                    \E j \in 1..Len(frame.df) :
                        /\ frame.df[j].line_id = frame.df[k].line_id
                        /\ frame.df[j].stop_id = frame.df[k].stop_id
                        /\ frame.df[j].alerts_count > 0
                        /\ frame.df[j].bucket_start > frame.df[k].bucket_start
                        /\ frame.df[j].bucket_start <= frame.df[k].bucket_start + 15 * 60
    /\ [k \in 1..4 |-> create_label(LabelExample)[k].label] = <<1, 1, 0, 0>>

\* a labelled corpus with a row labelled 1, a row labelled 0 that has an alert
\* of its own, and a second group
C8_Witness ==
    /\ frame.stage = "labelled"
    /\ \E k \in 1..Len(frame.df) : frame.df[k].label = 1
    /\ \E k \in 1..Len(frame.df) : frame.df[k].label = 0 /\ frame.df[k].alerts_count > 0

(***************************************************************************)
(* C10: the online query                                                   *)
(***************************************************************************)
\* the 60-second facts of a station with bucket_start in (as_of - w, as_of]
StationWindow(table, line_id, stop_id, as_of, w) ==
    {r \in DOMAIN table : /\ r.line_id = line_id
                          /\ r.stop_id = stop_id
                          /\ r.bucket_size_seconds = 60
                          /\ as_of - w < r.bucket_start
                          /\ r.bucket_start <= as_of}

StationWindowSums(table, line_id, stop_id, as_of, w) ==
    LET S == StationWindow(table, line_id, stop_id, as_of, w)
    IN  [alerts_sum |-> SumColumn(table, S, "alerts_count"),
         trip_updates_sum |-> SumColumn(table, S, "trip_updates_count"),
         vehicle_positions_sum |-> SumColumn(table, S, "vehicle_positions_count")]

\* C10: compute_features_online takes as as-of time the greatest bucket_start
\* among the 60-second facts of the key, returns the four counts of that row,
\* and for the 15- and 60-minute windows the sums of each count over the
\* 60-second facts of the key with bucket_start in (as_of - w, as_of], each
\* read on the table as it is when the query runs; other stations and
\* 300-second rows do not contribute.
C10_OnlineWindows ==
    [][ /\ (online.pc = "idle" /\ online'.pc = "sum15") =>
              /\ online'.row \in DOMAIN facts
              /\ online'.row.line_id = online'.line_id
              /\ online'.row.stop_id = online'.stop_id
              /\ online'.row.bucket_size_seconds = 60
              /\ \A r \in DOMAIN facts :
                    (/\ r.line_id = online'.line_id
                     /\ r.stop_id = online'.stop_id
                     /\ r.bucket_size_seconds = 60) =>
                        r.bucket_start <= online'.row.bucket_start
        /\ (online.pc = "sum15" /\ online'.pc = "sum60") =>
              online'.row_15m = StationWindowSums(facts, online.line_id, online.stop_id,
                                                  online.row.bucket_start, 15 * 60)
        /\ (online.pc = "sum60" /\ online'.pc = "returned") =>
              LET f   == online'.features
                  s60 == StationWindowSums(facts, online.line_id, online.stop_id,
                                           online.row.bucket_start, 60 * 60)
              IN  /\ online'.latest_bucket_start = online.row.bucket_start
                  /\ f.alerts_count = online.row.alerts_count
                  /\ f.major_alerts_count = online.row.major_alerts_count
                  /\ f.trip_updates_count = online.row.trip_updates_count
                  /\ f.vehicle_positions_count = online.row.vehicle_positions_count
                  /\ f.alerts_sum_15m = online.row_15m.alerts_sum
                  /\ f.trip_updates_sum_15m = online.row_15m.trip_updates_sum
                  /\ f.vehicle_positions_sum_15m = online.row_15m.vehicle_positions_sum
                  /\ f.alerts_sum_60m = s60.alerts_sum
                  /\ f.trip_updates_sum_60m = s60.trip_updates_sum
                  /\ f.vehicle_positions_sum_60m = s60.vehicle_positions_sum
      ]_vars

\* a query has returned sums whose 60-minute window holds more than the
\* 15-minute window, on a table with rows of another key and of width 300
C10_Witness ==
    /\ online.pc = "returned"
    /\ online.features.alerts_sum_60m + online.features.trip_updates_sum_60m
         + online.features.vehicle_positions_sum_60m
       > online.features.alerts_sum_15m + online.features.trip_updates_sum_15m
         + online.features.vehicle_positions_sum_15m
    /\ \E r \in DOMAIN facts : r.bucket_size_seconds = 300
    /\ \E r \in DOMAIN facts :
          r.bucket_size_seconds = 60 /\ r.bucket_start = online.latest_bucket_start - 15 * 60

(***************************************************************************)
(* Properties of the ingestion (specification SpecIngest)                  *)
(***************************************************************************)
\* C9: every run that ingest_once created with status 'running' has status
\* 'success' or 'failed' once ingest_once has returned or raised, whatever
\* raised.
C9_RunReachesTerminal ==
    ingest.pc \in {"returned", "raised", "idle"} =>
        \A i \in 1..Len(ingest_runs) : ingest_runs[i] \in {"success", "failed"}

(***************************************************************************)
(* Properties of the aggregation transaction (specification SpecConc)      *)
(***************************************************************************)
\* the committed states of the facts table around the statement in flight:
\* the table before it and the table with all of its writes applied
CommittedStates ==
    IF agg.pc = "writing"
    THEN {agg.before, TableAfter(agg.before, agg.rows)}
    ELSE {facts}

\* C11: the insert/upsert of one upsert_facts statement is atomic for the
\* online query: each of its reads (the latest row of the station, the
\* 15-minute sums, the 60-minute sums) returns what that read returns on the
\* table before the statement or on the table with the whole statement
\* applied, never on a table with only part of the statement's rows written.
C11_AtomicVisibility ==
    [][ /\ (online.pc = "idle" /\ online'.pc = "sum15") =>
              \E S \in CommittedStates :
                  online'.row \in LatestRows(S, online'.line_id, online'.stop_id)
        /\ (online.pc = "idle" /\ online'.pc = "raised"
                /\ online'.message = "No data found") =>
              \E S \in CommittedStates :
                  LatestRows(S, online'.line_id, online'.stop_id) = {}
        /\ (online.pc = "sum15" /\ online'.pc = "sum60") =>
              \E S \in CommittedStates :
                  online'.row_15m =
                      WindowSums(S, online.line_id, online.stop_id,
                                 online.row.bucket_start - WINDOW_15MIN,
                                 online.row.bucket_start)
        /\ (online.pc = "sum60" /\ online'.pc = "returned") =>
              \E S \in CommittedStates :
                  LET row_60m == WindowSums(S, online.line_id, online.stop_id,
                                            online.row.bucket_start - WINDOW_60MIN,
                                            online.row.bucket_start)
                  IN  /\ online'.features.alerts_sum_60m = row_60m.alerts_sum
                      /\ online'.features.trip_updates_sum_60m = row_60m.trip_updates_sum
                      /\ online'.features.vehicle_positions_sum_60m =
                             row_60m.vehicle_positions_sum
      ]_vars

\* the query reads its 60-minute sums while a statement has written one of
\* the station's buckets and not yet all of its rows: the uncommitted table
\* would give another sum than the committed one
C11_Witness ==
    /\ online.pc = "sum60"
    /\ agg.pc = "writing"
    /\ agg.pending # {}
    /\ agg.work # agg.before
    /\ WindowSums(agg.work, online.line_id, online.stop_id,
                  online.row.bucket_start - WINDOW_60MIN, online.row.bucket_start)
         # WindowSums(facts, online.line_id, online.stop_id,
                      online.row.bucket_start - WINDOW_60MIN, online.row.bucket_start)

\* C14: upsert_facts called with a bucket width other than 60 or 300 raises
\* ValueError before any statement is sent to the store (the call never
\* reaches cur.execute), and the facts table is left unchanged; the widths 60
\* and 300 do not raise.
C14_UnsupportedWidth ==
    [][ /\ (agg.pc = "idle" /\ agg'.pc # "idle") =>
              /\ (agg'.bucket_size_seconds \notin {60, 300}) <=> (agg'.pc = "raised")
              /\ agg'.pc = "raised" => agg'.error = "ValueError"
              /\ facts' = facts
        /\ agg.pc = "raised" => (facts' = facts /\ agg'.pc \in {"raised", "idle"})
        /\ (agg.pc = "execute" /\ agg'.pc # "execute") =>
              agg.bucket_size_seconds \in {60, 300}
      ]_vars

\* a call with width 3600 has raised on a table that holds facts
C14_Witness ==
    /\ agg.pc = "raised"
    /\ agg.bucket_size_seconds = 3600
    /\ facts # EmptyBag

(***************************************************************************)
(* C12: the order of the features                                          *)
(***************************************************************************)
\* C12: the feature columns of the labelled corpus (get_feature_columns over
\* the output of create_features/create_label), the keys of the dictionary
\* returned by compute_features_online and FEATURE_ORDER are the same twelve
\* names in the same order, so that position i of a training row and of the
\* vector handed to the model hold the same feature.
C12_FeatureOrder ==
    /\ frame.stage = "labelled" =>
          /\ get_feature_columns(frame.columns) = FEATURE_ORDER
          /\ \A k \in 1..Len(frame.df) :
                TrainingInput(frame.df[k], frame.columns)
                    = feature_array(BatchVector(frame.df[k]))
    /\ online.pc = "returned" => FeaturesDictKeys = FEATURE_ORDER

(***************************************************************************)
(* Properties of parse_feed (specification SpecParse)                      *)
(***************************************************************************)
HasPayload(entity) == entity.alert \/ entity.trip_update \/ entity.vehicle

\* position, among the emitted events, of the event of the i-th entity
EventIndex(entity, i) == Cardinality({j \in 1..i : HasPayload(entity[j])})

\* the route_id of the first item that has one, NULL when none has
FirstRouteId(items) ==
    IF \E i \in DOMAIN items : items[i].route_id # NULL
    THEN LET first == CHOOSE i \in DOMAIN items :
                         /\ items[i].route_id # NULL
                         /\ \A j \in 1..(i - 1) : items[j].route_id = NULL
         IN  items[first].route_id
    ELSE NULL

FirstStopId(items) ==
    IF \E i \in DOMAIN items : items[i].stop_id # NULL
    THEN LET first == CHOOSE i \in DOMAIN items :
                         /\ items[i].stop_id # NULL
                         /\ \A j \in 1..(i - 1) : items[j].stop_id = NULL
         IN  items[first].stop_id
    ELSE NULL

EmptyAsNull(x) == IF x = "" THEN NULL ELSE x

PrecedenceExample ==
    << [route_id |-> "A", stop_id |-> NULL],
       [route_id |-> NULL, stop_id |-> "A12"],
       [route_id |-> "Q", stop_id |-> NULL] >>

\* C18 as stated: for an alert entity, line_id is the route_id of the first
\* informed-entity item that carries a route_id and stop_id the stop_id of
\* the first item that carries a stop_id, each independently, later matches
\* ignored.
C18_FirstMatchAsCarried ==
    parser.pc = "returned" =>
        \A i \in DOMAIN parser.feed_bytes.entity :
            LET entity == parser.feed_bytes.entity[i]
                event  == parser.result.entities[EventIndex(parser.feed_bytes.entity, i)]
            IN  entity.alert =>
                    /\ event.line_id = FirstRouteId(entity.informed_entity)
                    /\ event.stop_id = FirstStopId(entity.informed_entity)

\* C18 amended: the same, where a first route_id or stop_id that is the
\* empty string gives null (and still shadows the later items); the items
\* [{route_id A}, {stop_id A12}, {route_id Q}] give line_id A, stop_id A12.
C18_FirstMatchEmptyAsNull ==
    /\ EntityDict(AlertEntity("x", PrecedenceExample)).line_id = "A"
    /\ EntityDict(AlertEntity("x", PrecedenceExample)).stop_id = "A12"
    /\ parser.pc = "returned" =>
          \A i \in DOMAIN parser.feed_bytes.entity :
              LET entity == parser.feed_bytes.entity[i]
                  event  == parser.result.entities[EventIndex(parser.feed_bytes.entity, i)]
              IN  entity.alert =>
                      /\ event.entity_type = "service_alerts"
                      /\ event.line_id = EmptyAsNull(FirstRouteId(entity.informed_entity))
                      /\ event.stop_id = EmptyAsNull(FirstStopId(entity.informed_entity))

\* parse_feed has returned the event of an alert with the items of the example
C18_Witness ==
    /\ parser.pc = "returned"
    /\ \E i \in DOMAIN parser.feed_bytes.entity :
          /\ parser.feed_bytes.entity[i].alert
          /\ parser.feed_bytes.entity[i].informed_entity = PrecedenceExample
          /\ parser.result.entities[EventIndex(parser.feed_bytes.entity, i)].line_id = "A"
          /\ parser.result.entities[EventIndex(parser.feed_bytes.entity, i)].stop_id = "A12"

\* the kinds of the payloads an entity carries
PayloadKinds(entity) ==
    (IF entity.alert THEN {"service_alerts"} ELSE {})
        \cup (IF entity.trip_update THEN {"trip_updates"} ELSE {})
        \cup (IF entity.vehicle THEN {"vehicle_positions"} ELSE {})

\* C19: parse_feed emits exactly one event, in feed order, for each entity
\* that carries an alert, trip-update or vehicle payload, tagged with the
\* kind of a payload it carries, and nothing for an entity that carries none;
\* such an entity raises no error (parse_feed raises only on bytes that do
\* not decode).
C19_OneEventPerPayloadEntity ==
    /\ parser.pc = "raised" => ~ parser.feed_bytes.decodes
    /\ parser.pc = "returned" =>
          LET entity == parser.feed_bytes.entity
              events == parser.result.entities
          IN  /\ Len(events) = Cardinality({i \in DOMAIN entity : HasPayload(entity[i])})
              /\ \A i \in DOMAIN entity :
                    HasPayload(entity[i]) =>
                        /\ events[EventIndex(entity, i)].entity_id = entity[i].id
                        /\ events[EventIndex(entity, i)].entity_type
                               \in PayloadKinds(entity[i])

\* a feed whose first entity has no payload and whose second has one
C19_Witness ==
    /\ parser.pc = "returned"
    /\ Len(parser.feed_bytes.entity) = 2
    /\ ~ HasPayload(parser.feed_bytes.entity[1])
    /\ HasPayload(parser.feed_bytes.entity[2])
    /\ Len(parser.result.entities) = 1
    /\ parser.result.entities[1].entity_id = parser.feed_bytes.entity[2].id

(***************************************************************************)
(* Error handling of the ingestion (specification SpecIngest)              *)
(***************************************************************************)
\* C13: when SERVICE_ALERTS_URL or REALTIME_FEEDS_URLS is missing, ingest_once
\* raises its configuration error before any run record or raw event is
\* written, and the loop that called it does not start the cycle again.
C13_ConfigErrorFatal ==
    [][ /\ (ingest.pc = "idle" /\ ingest'.pc = "raised") =>
              /\ ingest'.error = "ValueError"
              /\ ingest_runs' = ingest_runs
              /\ raw_events' = raw_events
        /\ (ingest.pc = "raised" /\ ingest.error = "ValueError") =>
              ingest'.pc = "raised"
      ]_vars

\* C15: if parse_feed fails on the bytes of a feed, the caller gets neither a
\* feed time nor events, and no raw event of that feed is written: no row is
\* inserted between the failure and the exit of ingest_once.
C15_DecodeFailureRejectsFeed ==
    [][ /\ (ingest.pc = "parse" /\ ~ ingest.feed_bytes.decodes /\ ingest' # ingest) =>
              /\ ingest'.pc = "except"
              /\ ingest'.error = "DecodeError"
              /\ "feed_ts" \notin DOMAIN ingest'
              /\ "entities" \notin DOMAIN ingest'
              /\ raw_events' = raw_events
        /\ ingest.pc = "except" =>
              /\ raw_events' = raw_events
              /\ ingest'.pc \in {"except", "raised"}
      ]_vars

\* a realtime feed failed to decode after the alerts of the cycle were stored
C15_Witness ==
    /\ ingest.pc = "raised"
    /\ ingest.error = "DecodeError"
    /\ ingest.feed >= 1
    /\ raw_events # EmptyBag

\* C16: when a feed of a cycle fails to decode, the feeds that come after it
\* in the cycle are still fetched, decoded and stored: ingest_once does not
\* leave the cycle on a decode failure before its last feed.
C16_DecodeFailureIsolated ==
    (ingest.pc = "raised" /\ ingest.error = "DecodeError") =>
        ingest.feed = Len(ingest.realtime_urls)

\* C28: a cycle of ingest_once that raises does not end the polling loop:
\* after every cycle, raised or returned, the loop sleeps and then calls
\* ingest_once again, and the loop stops on a user interrupt only.
C28_LoopSurvivesFailures ==
    [][ /\ (ingest.pc \in {"returned", "raised"} /\ ingest' # ingest) =>
              \/ ingest' = [pc |-> "idle"]
              \/ ingest' = [pc |-> "stopped", by |-> "KeyboardInterrupt"]
        /\ (ingest.pc = "idle" /\ ingest' # ingest) =>
              ingest'.pc \in {"start_run", "raised"}
        /\ ingest'.pc = "stopped" =>
              /\ ingest'.by = "KeyboardInterrupt"
              /\ ingest.pc \in {"returned", "raised", "stopped"}
      ]_vars

\* a cycle has failed with its run marked, and the loop is in its next cycle
C28_Witness ==
    /\ Len(ingest_runs) = 2
    /\ ingest_runs[1] = "failed"
    /\ ingest.pc = "fetch"
    /\ ingest.run_id = 2

(***************************************************************************)
(* C17: no data for the station                                            *)
(***************************************************************************)
HasFact60(table, line_id, stop_id) ==
    \E r \in DOMAIN table : /\ r.line_id = line_id
                            /\ r.stop_id = stop_id
                            /\ r.bucket_size_seconds = 60

\* C17: a call of compute_features_online that reaches the store raises its
\* not-found error exactly when the table holds no 60-second fact of the
\* requested key (it goes on to the sums exactly when it holds one), and the
\* endpoint answers that error with HTTP 404.
C17_NotFound ==
    [][ /\ (online.pc = "idle" /\ online'.pc = "sum15") =>
              HasFact60(facts, online'.line_id, online'.stop_id)
        /\ (online.pc = "idle" /\ online'.pc = "raised"
                /\ online'.message = "No data found") =>
              ~ HasFact60(facts, online'.line_id, online'.stop_id)
        /\ (online.pc = "idle" /\ online'.pc = "raised"
                /\ online'.message # "No data found") =>
              \E e \in ConnectErrors : e.message = online'.message
        /\ (online.pc = "raised" /\ online.message = "No data found"
                /\ online'.pc = "responded") =>
              /\ online'.status_code = 404
              /\ online'.detail = "No data found"
      ]_vars

\* the endpoint has answered 404 for a station without 60-second facts while
\* the table holds 60-second facts of another station
C17_Witness ==
    /\ online.pc = "responded"
    /\ online.status_code = 404
    /\ online.detail = "No data found"
    /\ ~ HasFact60(facts, online.line_id, online.stop_id)
    /\ \E r \in DOMAIN facts : r.bucket_size_seconds = 60 /\ r.line_id = online.line_id

(***************************************************************************)
(* Properties of compute_psi (specification SpecPsi)                       *)
(***************************************************************************)
IsConstant(a) == \A i, j \in DOMAIN a : a[i] = a[j]

\* C20: compute_psi returns NaN whenever the current or the baseline sample
\* is empty (also when the other one is constant), and returns exactly 0.0
\* whenever both samples are non-empty and the baseline has min = max,
\* whatever the values of the current sample.
C20_PsiDegenerate ==
    drift.pc = "returned" =>
        /\ (Len(drift.actual_values) = 0 \/ Len(drift.expected_values) = 0) =>
              drift.psi.value = "nan"
        /\ (/\ Len(drift.actual_values) > 0
            /\ Len(drift.expected_values) > 0
            /\ IsConstant(drift.expected_values)) =>
              drift.psi.value = "0.0"

\* a constant baseline and a current sample with other values gave 0.0
C20_Witness ==
    /\ drift.pc = "returned"
    /\ drift.expected_values = <<1, 1>>
    /\ drift.actual_values = <<0, 4>>
    /\ drift.psi.value = "0.0"

\* a call of compute_psi that got past the two early returns
NonDegenerate ==
    /\ drift.pc = "returned"
    /\ Len(drift.expected_values) > 0
    /\ Len(drift.actual_values) > 0
    /\ ArrayMin(drift.expected_values) < ArrayMax(drift.expected_values)

\* C21: for non-empty samples with a non-constant baseline the PSI returned
\* is never negative, and it is 0 when the current sample is the baseline
C21_PsiIdentityAndSign ==
    NonDegenerate =>
        /\ drift.psi.value = "sum"
        /\ \A sign \in drift.psi.signs : sign >= 0
        /\ drift.actual_values = drift.expected_values => drift.psi.signs = {0}

\* compute_psi(x, x) returned 0 for the non-degenerate sample x = <<0, 4>>
C21_Witness ==
    /\ NonDegenerate
    /\ drift.expected_values = <<0, 4>>
    /\ drift.actual_values = <<0, 4>>
    /\ drift.psi.signs = {0}

\* the values of sample a that lie in bin b of the edges: from edge b - 1 up
\* to, not including, edge b; the last bin includes its upper edge
InBin(a, edges, b, bins) ==
    {i \in DOMAIN a :
        /\ a[i] * edges[b - 1].den >= edges[b - 1].num
        /\ \/ a[i] * edges[b].den < edges[b].num
           \/ b = bins /\ a[i] * edges[b].den = edges[b].num}

\* C22: there are bins + 1 equally spaced edges from the baseline's minimum to
\* its maximum; every baseline value is counted once, the maximum in the last
\* bin; a current value outside the edges is counted nowhere, and the current
\* fractions are over the whole current sample
C22_BaselineSupport ==
    NonDegenerate =>
        LET psi == drift.psi
            e == drift.expected_values
            a == drift.actual_values
            edges == psi.bin_edges
        IN  /\ DOMAIN edges = 0..DefaultBins
            /\ edges[0].num = ArrayMin(e) * edges[0].den
            /\ edges[DefaultBins].num = ArrayMax(e) * edges[DefaultBins].den
            /\ \A k \in 1..DefaultBins :
                  /\ edges[k].den = edges[0].den
                  /\ edges[k].num - edges[k - 1].num = edges[1].num - edges[0].num
            /\ \A b \in 1..DefaultBins :
                  /\ psi.expected_hist[b] = Cardinality(InBin(e, edges, b, DefaultBins))
                  /\ psi.actual_hist[b] = Cardinality(InBin(a, edges, b, DefaultBins))
                  /\ psi.actual_pct[b].num =
                        psi.actual_hist[b] * EpsilonInverse + Len(a)
            /\ SumSeq(psi.expected_hist, 1..DefaultBins, 0) = Len(e)
            /\ psi.expected_hist[DefaultBins] >= 1
            /\ SumSeq(psi.actual_hist, 1..DefaultBins, 0) =
                  Cardinality({i \in DOMAIN a :
                                  a[i] >= ArrayMin(e) /\ a[i] <= ArrayMax(e)})
            /\ psi.actual_total = Len(a)

\* a current value above the baseline's maximum was left out of the histogram
\* and still counted in the sample size
C22_Witness ==
    /\ NonDegenerate
    /\ drift.expected_values = <<0, 1>>
    /\ drift.actual_values = <<4, 1>>
    /\ SumSeq(drift.psi.actual_hist, 1..DefaultBins, 0) = 1
    /\ drift.psi.actual_total = 2

\* the six rolling sums of a feature row
RollingSums(r) ==
    {r.alerts_sum_15m, r.trip_updates_sum_15m, r.vehicle_positions_sum_15m,
     r.alerts_sum_60m, r.trip_updates_sum_60m, r.vehicle_positions_sum_60m}

\* C23: every count and every rolling sum of every feature row that
\* create_features produces, the first row of each station group included, and
\* of every vector that compute_features_online returns, is a number, never
\* NaN or null
C23_NoNullFeatures ==
    /\ \A df \in load_facts(facts) :
          create_features(df).ok =>
              \A k \in 1..Len(df) :
                  LET r == create_features(df).rows[k]
                  IN  /\ NaN \notin RollingSums(r)
                      /\ NaN \notin {r.alerts_count, r.trip_updates_count,
                                     r.vehicle_positions_count}
    /\ online.pc = "returned" =>
          /\ NaN \notin RollingSums(online.features)
          /\ NULL \notin RollingSums(online.features)

\* row r holds, for each kind, the number of all raw events E of its key whose
\* event_time falls in its bucket
CompleteCounts(r, E) ==
    /\ r.alerts_count = EventsIn(E, r.bucket_size_seconds, r.bucket_start,
                                 r.line_id, r.stop_id, "service_alerts")
    /\ r.trip_updates_count = EventsIn(E, r.bucket_size_seconds, r.bucket_start,
                                       r.line_id, r.stop_id, "trip_updates")
    /\ r.vehicle_positions_count = EventsIn(E, r.bucket_size_seconds, r.bucket_start,
                                            r.line_id, r.stop_id, "vehicle_positions")

\* C24: every row that an aggregation cycle inserts or changes holds the
\* counts of all raw events of its bucket and key that exist when the cycle
\* runs, also when the cycle's window starts inside the bucket
C24_CompleteBucketCounts ==
    [][ \A r \in DOMAIN facts' :
            (r \notin DOMAIN facts \/ facts'[r] # facts[r]) =>
                CompleteCounts(r, DOMAIN raw_events) ]_vars

\* C25 as stated: every vector compute_features_online returns is the vector
\* of one committed state of the facts table, one of those the table went
\* through between the first read and the return, also when aggregation
\* statements commit between the three reads; so each 60-minute sum is at
\* least the 15-minute sum, which is at least the count of the latest row
C25_SnapshotConsistency ==
    online.pc = "returned" =>
        LET f == online.features
        IN  /\ \E S \in online.seen :
                  f \in OnlineVectors(S, online.line_id, online.stop_id)
            /\ f.alerts_sum_60m >= f.alerts_sum_15m
            /\ f.alerts_sum_15m >= f.alerts_count
            /\ f.alerts_count >= 0
            /\ f.trip_updates_sum_60m >= f.trip_updates_sum_15m
            /\ f.trip_updates_sum_15m >= f.trip_updates_count
            /\ f.trip_updates_count >= 0
            /\ f.vehicle_positions_sum_60m >= f.vehicle_positions_sum_15m
            /\ f.vehicle_positions_sum_15m >= f.vehicle_positions_count
            /\ f.vehicle_positions_count >= 0

\* the counts of vector f and its as-of time are those of the station's
\* latest 60-second row in table S
LatestIn(S, f, line_id, stop_id, as_of) ==
    \E r \in DOMAIN S :
        /\ r.line_id = line_id /\ r.stop_id = stop_id
        /\ r.bucket_size_seconds = 60
        /\ r.bucket_start = as_of
        /\ \A x \in DOMAIN S :
              (x.line_id = line_id /\ x.stop_id = stop_id
                  /\ x.bucket_size_seconds = 60) => x.bucket_start <= as_of
        /\ f.alerts_count = r.alerts_count
        /\ f.major_alerts_count = r.major_alerts_count
        /\ f.trip_updates_count = r.trip_updates_count
        /\ f.vehicle_positions_count = r.vehicle_positions_count

\* C25 amended: each of the three reads of a returned vector sees a committed
\* state of the facts table, one of those the table went through between the
\* first read and the return, but not necessarily the same one: the counts
\* and the as-of time are those of the station's latest row in one of them,
\* the 15-minute sums and the 60-minute sums are each the sums over
\* (as_of - w, as_of] in one of them; every value is at least 0; and when
\* nothing was committed during the query the vector is that of the one state
C25_ReadsCommitted ==
    online.pc = "returned" =>
        LET f == online.features
            as_of == online.latest_bucket_start
            sums(S, w) == StationWindowSums(S, online.line_id, online.stop_id, as_of, w)
        IN  /\ \E S \in online.seen :
                  LatestIn(S, f, online.line_id, online.stop_id, as_of)
            /\ \E S \in online.seen :
                  /\ f.alerts_sum_15m = sums(S, 15 * 60).alerts_sum
                  /\ f.trip_updates_sum_15m = sums(S, 15 * 60).trip_updates_sum
                  /\ f.vehicle_positions_sum_15m = sums(S, 15 * 60).vehicle_positions_sum
            /\ \E S \in online.seen :
                  /\ f.alerts_sum_60m = sums(S, 60 * 60).alerts_sum
                  /\ f.trip_updates_sum_60m = sums(S, 60 * 60).trip_updates_sum
                  /\ f.vehicle_positions_sum_60m = sums(S, 60 * 60).vehicle_positions_sum
            /\ \A k \in {"alerts_count", "trip_updates_count", "vehicle_positions_count",
                         "alerts_sum_15m", "trip_updates_sum_15m",
                         "vehicle_positions_sum_15m", "alerts_sum_60m",
                         "trip_updates_sum_60m", "vehicle_positions_sum_60m"} :
                  f[k] >= 0
            /\ Cardinality(online.seen) = 1 =>
                  \A S \in online.seen :
                      f \in OnlineVectors(S, online.line_id, online.stop_id)

\* a query has returned a vector whose count was read before and whose sums
\* were read after a commit that raised the latest row's count
C25_Witness ==
    /\ online.pc = "returned"
    /\ Cardinality(online.seen) > 1
    /\ online.features.alerts_sum_15m > online.features.alerts_count
    /\ \A S \in online.seen :
          online.features \notin OnlineVectors(S, online.line_id, online.stop_id)

\* C26: the scoring endpoint answers 404 exactly when the requested station
\* has no 60-second fact; a missing store configuration, a store failure, a
\* model that is not loaded and a model that rejects the input are answered
\* with 500
C26_NotFoundMeansNoData ==
    online.pc = "responded" =>
        /\ online.status_code = 404 <=> online.detail = "No data found"
        /\ online.detail \notin {"ok", "No data found"} => online.status_code = 500

(***************************************************************************)
(* Properties of the weekly retraining (specification SpecRetrain)         *)
(***************************************************************************)
\* C27: when a model and its metrics exist at the start of a retrain run, at
\* every exit of the run best_model.pkl is the new model only if its test F1
\* exceeds the previous one by 0.01 or more, and otherwise best_model.pkl and
\* last_metrics.json are those of the previous model; when there is no such
\* pair a run that succeeds leaves the new model active
C27_PromotionSafety ==
    retrain.pc = "exit" =>
        IF retrain.old_test_f1 # None
        THEN \/ /\ retrain.dir.best_model = "new"
                /\ retrain.best_test_f1 # None
                /\ retrain.best_test_f1[1] - retrain.old_test_f1[1]
                       >= improvement_threshold
             \/ /\ retrain.dir.best_model = "previous"
                /\ retrain.dir.last_metrics = retrain.old_metrics_data
        ELSE retrain.returncode = Some(0) => retrain.dir.best_model = "new"

(***************************************************************************)
(* Properties of the feed fetch (specification SpecFetch)                  *)
(***************************************************************************)
\* C29: one call of fetch_bytes makes at most two requests; the first is for
\* the URL and carries the API key, when there is one, in the x-api-key
\* header; a second request, for the URL with ?api_key=<key> appended and
\* without headers, is made only when the first was answered 401 or 403 and
\* an API key is given; any other failure of the first request, and any
\* failure of the second, is raised to the caller with no further request.
C29_FetchRetryProtocol ==
    fetch.pc # "idle" =>
        LET n == Len(fetch.requests)
            failed(o) == o.kind # "response" \/ o.status_code >= 400
        IN  /\ n <= 2
            /\ n >= 1 =>
                  /\ fetch.requests[1].url = <<fetch.url>>
                  /\ fetch.requests[1].headers =
                        IF fetch.api_key \in {NULL, ""} THEN {}
                        ELSE {<<"x-api-key", fetch.api_key>>}
            /\ n = 2 =>
                  /\ fetch.responses[1].kind = "response"
                  /\ fetch.responses[1].status_code \in {401, 403}
                  /\ fetch.api_key \notin {NULL, ""}
                  /\ fetch.requests[2].url = <<fetch.url, "?api_key=", fetch.api_key>>
                  /\ fetch.requests[2].headers = {}
            /\ fetch.pc \in {"returned", "raised"} =>
                  LET last == fetch.responses[n]
                  IN  /\ n >= 1
                      /\ (n = 1 /\ fetch.pc = "raised") =>
                            ~ (/\ fetch.responses[1].kind = "response"
                               /\ fetch.responses[1].status_code \in {401, 403}
                               /\ fetch.api_key \notin {NULL, ""})
                      /\ failed(last) <=> fetch.pc = "raised"
                      /\ fetch.pc = "raised" =>
                            /\ fetch.result.kind = "raised"
                            /\ fetch.result.error.status_code =
                                  (IF last.kind = "response" THEN last.status_code ELSE 0)
                            /\ fetch.result.error.type =
                                  (IF last.kind = "response" THEN "HTTPError" ELSE last.kind)
                      /\ fetch.pc = "returned" =>
                            fetch.result = [kind |-> "content", content |-> last.content]

\* the header request was answered 403, the retry with the key in the URL
\* failed with 500 and that error has been raised
C29_Witness ==
    /\ fetch.pc = "raised"
    /\ Len(fetch.requests) = 2
    /\ fetch.responses[1].status_code = 403
    /\ fetch.responses[2].status_code = 500
    /\ fetch.result.error = [type |-> "HTTPError", status_code |-> 500]

(***************************************************************************)
(* Properties of the chronological split (specification SpecSplit)         *)
(***************************************************************************)
\* the rows of a frame
RowsOf(part) == {part[i] : i \in 1..Len(part)}

\* the three parts are pairwise disjoint and hold every row of df once
IsPartition(df, r) ==
    /\ RowsOf(r.train_df) \cap RowsOf(r.val_df) = {}
    /\ RowsOf(r.train_df) \cap RowsOf(r.test_df) = {}
    /\ RowsOf(r.val_df) \cap RowsOf(r.test_df) = {}
    /\ RowsOf(r.train_df) \cup RowsOf(r.val_df) \cup RowsOf(r.test_df) = RowsOf(df)
    /\ Len(r.train_df) + Len(r.val_df) + Len(r.test_df) = Len(df)

\* no row of part a is later than a row of part b
NotLater(a, b) ==
    \A x \in RowsOf(a), y \in RowsOf(b) : x.bucket_start <= y.bucket_start

\* C30: time_split cuts the n rows into a train, a validation and a test
\* part that are pairwise disjoint and together hold every row once, of
\* floor(0.70 n), floor(0.85 n) - floor(0.70 n) and n - floor(0.85 n) rows,
\* no train row later than a validation row and no validation row later
\* than a test row.
C30_ChronologicalSplit ==
    split.pc = "split" =>
        LET r == split.result
            n == Len(split.df)
        IN  /\ IsPartition(split.df, r)
            /\ Len(r.train_df) = (70 * n) \div 100
            /\ Len(r.val_df) = (85 * n) \div 100 - (70 * n) \div 100
            /\ Len(r.test_df) = n - (85 * n) \div 100
            /\ NotLater(r.train_df, r.val_df)
            /\ NotLater(r.val_df, r.test_df)
            /\ NotLater(r.train_df, r.test_df)

====
